---------------------------- MODULE Spec2Model ----------------------------
(***************************************************************************)
(* A model of tsn-parser: parse / stringify (src/index.ts), the parse      *)
(* stream (createParseStream), the parse result cache (transformCache)     *)
(* and the worker dispatch of src/performance.ts (parseInWorker,           *)
(* parseParallel).                                                         *)
(*                                                                         *)
(* Texts are sequences of one-character strings.  parse hands the          *)
(* preprocessed text to the host's eval; EvalText models that evaluator    *)
(* on the part of the expression language the texts of this model can      *)
(* spell: object and array literals, numbers, double-quoted strings,       *)
(* true / false / null, unary and binary minus, the comma operator and     *)
(* bracket member access.                                                  *)
(***************************************************************************)
EXTENDS Integers, Sequences, FiniteSets, TLC

(***************************************************************************)
(* Characters                                                              *)
(***************************************************************************)
QUOTE == "\""
BSL == "\\"
NL == "\n"
SP == " "

Digits == {"0", "1", "2", "3", "4", "5", "6", "7", "8", "9"}

DigitSeq == <<"0", "1", "2", "3", "4", "5", "6", "7", "8", "9">>

LowerCase == {"a", "b", "c", "d", "e", "f", "g", "h", "i", "j", "k", "l", "m",
              "n", "o", "p", "q", "r", "s", "t", "u", "v", "w", "x", "y", "z"}

UpperCase == {"A", "B", "C", "D", "E", "F", "G", "H", "I", "J", "K", "L", "M",
              "N", "O", "P", "Q", "R", "S", "T", "U", "V", "W", "X", "Y", "Z"}

\* /[a-zA-Z_$]/ : the identifier-start class of the language and of the
\* quote scan of stringify
IdStart == LowerCase \cup UpperCase \cup {"_", "$"}

IdPart == IdStart \cup Digits

WhiteSpace == {SP, NL, "\t", "\r"}

Punct == {"{", "}", "[", "]", ":", ","}

DigitVal(c) == (CHOOSE i \in 1..10 : DigitSeq[i] = c) - 1

\* F applied to the value of v: v is evaluated once, whatever the number of
\* places F uses it in
Bind(v, F(_)) == CHOOSE r \in {F(x) : x \in {v}} : TRUE

Drop(s, n) == SubSeq(s, n + 1, Len(s))

Take(s, n) == SubSeq(s, 1, n)

RECURSIVE Spaces(_)
Spaces(n) == IF n <= 0 THEN <<>> ELSE <<SP>> \o Spaces(n - 1)

RECURSIVE Concat(_)
Concat(ss) == IF ss = <<>> THEN <<>> ELSE Head(ss) \o Concat(Tail(ss))

\* Number.prototype.toString / String(n) of an integer
RECURSIVE NatToText(_)
NatToText(n) ==
    IF n < 10 THEN <<DigitSeq[n + 1]>>
    ELSE NatToText(n \div 10) \o <<DigitSeq[(n % 10) + 1]>>

NumToText(n) == IF n < 0 THEN <<"-">> \o NatToText(0 - n) ELSE NatToText(n)

(***************************************************************************)
(* Values of the host language.  Every value is a record of the same       *)
(* shape: t is the type tag, n the number (or 0/1 of a boolean), s the     *)
(* characters of a string, kids the elements of an array or the member     *)
(* values of an object, keys the member keys of an object, in order.       *)
(***************************************************************************)
Val(t, n, s, kids, keys) == [t |-> t, n |-> n, s |-> s, kids |-> kids, keys |-> keys]

VUndef == Val("undefined", 0, <<>>, <<>>, <<>>)
VNull == Val("null", 0, <<>>, <<>>, <<>>)
VNaN == Val("nan", 0, <<>>, <<>>, <<>>)
VBool(b) == Val("bool", IF b THEN 1 ELSE 0, <<>>, <<>>, <<>>)
VNum(n) == Val("num", n, <<>>, <<>>, <<>>)
VStr(s) == Val("str", 0, s, <<>>, <<>>)
VArr(kids) == Val("arr", 0, <<>>, kids, <<>>)
VObj(keys, kids) == Val("obj", 0, <<>>, kids, keys)
\* a function value; s is its source text, value.toString()
VFun(src) == Val("fun", 0, src, <<>>, <<>>)

IndexOf(seq, x) ==
    IF \E i \in 1..Len(seq) : seq[i] = x
    THEN CHOOSE i \in 1..Len(seq) : seq[i] = x /\ \A j \in 1..(i - 1) : seq[j] # x
    ELSE 0

\* an integer-like property key ("0", "7", "12"): such keys come first, in
\* ascending order, in the member order of an object
IsIndexKey(k) ==
    /\ Len(k) > 0
    /\ \A i \in 1..Len(k) : k[i] \in Digits
    /\ (Len(k) > 1 => k[1] # "0")

RECURSIVE TextToNat(_)
TextToNat(k) ==
    IF k = <<>> THEN 0
    ELSE 10 * TextToNat(Take(k, Len(k) - 1)) + DigitVal(k[Len(k)])

InsertAt(seq, i, x) == Take(seq, i - 1) \o <<x>> \o Drop(seq, i - 1)

\* defining member k of an object under construction: a repeated key keeps
\* its first position and takes the last value
SetMember(obj, k, v) ==
    LET at == IndexOf(obj.keys, k) IN
    IF at > 0 THEN VObj(obj.keys, [obj.kids EXCEPT ![at] = v])
    ELSE IF IsIndexKey(k)
    THEN LET smaller == {i \in 1..Len(obj.keys) :
                            IsIndexKey(obj.keys[i]) /\ TextToNat(obj.keys[i]) < TextToNat(k)}
             p == Cardinality(smaller) + 1
         IN VObj(InsertAt(obj.keys, p, k), InsertAt(obj.kids, p, v))
    ELSE VObj(Append(obj.keys, k), Append(obj.kids, v))

\* ToPropertyKey of the values a bracket access can be given here
PropKey(v) ==
    CASE v.t = "num" -> NumToText(v.n)
      [] v.t = "str" -> v.s
      [] v.t = "bool" -> IF v.n = 1 THEN <<"t", "r", "u", "e">> ELSE <<"f", "a", "l", "s", "e">>
      [] v.t = "null" -> <<"n", "u", "l", "l">>
      [] v.t = "nan" -> <<"N", "a", "N">>
      [] OTHER -> <<"u", "n", "d", "e", "f", "i", "n", "e", "d">>

\* base[key]: own indexed and named properties; any other property reads
\* as undefined
GetMember(base, key) ==
    LET k == PropKey(key) IN
    CASE base.t = "arr" ->
           IF IsIndexKey(k) /\ TextToNat(k) < Len(base.kids)
           THEN base.kids[TextToNat(k) + 1] ELSE VUndef
      [] base.t = "str" ->
           IF IsIndexKey(k) /\ TextToNat(k) < Len(base.s)
           THEN VStr(<<base.s[TextToNat(k) + 1]>>) ELSE VUndef
      [] base.t = "obj" ->
           IF IndexOf(base.keys, k) > 0 THEN base.kids[IndexOf(base.keys, k)] ELSE VUndef
      [] OTHER -> VUndef

\* ToNumber of the host language on the values of the model; "nan" stands
\* for NaN
RECURSIVE ToNum(_)
ToNum(v) ==
    CASE v.t = "num" -> [nan |-> FALSE, n |-> v.n]
      [] v.t = "bool" -> [nan |-> FALSE, n |-> v.n]
      [] v.t = "null" -> [nan |-> FALSE, n |-> 0]
      [] v.t = "str" ->
           LET body == SelectSeq(v.s, LAMBDA c : c \notin WhiteSpace) IN
           IF body = <<>> THEN [nan |-> FALSE, n |-> 0]
           ELSE IF \A i \in 1..Len(body) : body[i] \in Digits
           THEN [nan |-> FALSE, n |-> TextToNat(body)]
           ELSE [nan |-> TRUE, n |-> 0]
      [] v.t = "arr" ->
           IF v.kids = <<>> THEN [nan |-> FALSE, n |-> 0]
           ELSE IF Len(v.kids) = 1 /\ v.kids[1].t \in {"null", "undefined"}
           THEN [nan |-> FALSE, n |-> 0]
           ELSE IF Len(v.kids) = 1 /\ v.kids[1].t \in {"num", "str", "arr"}
           THEN ToNum(v.kids[1])
           ELSE [nan |-> TRUE, n |-> 0]
      [] OTHER -> [nan |-> TRUE, n |-> 0]

\* a - b and -a
Minus(a, b) ==
    IF ToNum(a).nan \/ ToNum(b).nan THEN VNaN ELSE VNum(ToNum(a).n - ToNum(b).n)

Negate(a) == IF ToNum(a).nan THEN VNaN ELSE VNum(0 - ToNum(a).n)

(***************************************************************************)
(* The lexer of the evaluator.  A token is [k, s, n]: k the kind (a        *)
(* punctuator, "-", "--", "num", "str" or "id"), s the characters of a     *)
(* string or identifier, n the value of a number.                          *)
(***************************************************************************)
Tok(k, s, n) == [k |-> k, s |-> s, n |-> n]

LexFail == [ok |-> FALSE, toks |-> <<>>]

\* the end (exclusive) of the longest run of characters of class cls from i
RECURSIVE RunEnd(_, _, _)
RunEnd(s, i, cls) ==
    IF i <= Len(s) /\ s[i] \in cls THEN RunEnd(s, i + 1, cls) ELSE i

Unescape(c) ==
    CASE c = "n" -> NL
      [] c = "t" -> "\t"
      [] c = "r" -> "\r"
      [] OTHER -> c

\* the body of a double-quoted string literal from i (after the opening
\* quote): [ok, s, next]
RECURSIVE LexString(_, _, _)
LexString(s, i, acc) ==
    IF i > Len(s) THEN [ok |-> FALSE, s |-> <<>>, next |-> i]
    ELSE IF s[i] = QUOTE THEN [ok |-> TRUE, s |-> acc, next |-> i + 1]
    ELSE IF s[i] \in {NL, "\r"} THEN [ok |-> FALSE, s |-> <<>>, next |-> i]
    ELSE IF s[i] = BSL
    THEN IF i + 1 > Len(s) THEN [ok |-> FALSE, s |-> <<>>, next |-> i]
         ELSE IF s[i + 1] = NL THEN LexString(s, i + 2, acc)
         ELSE IF s[i + 1] \in Digits \cup {"u", "x"}
         THEN [ok |-> FALSE, s |-> <<>>, next |-> i]
         ELSE LexString(s, i + 2, Append(acc, Unescape(s[i + 1])))
    ELSE LexString(s, i + 1, Append(acc, s[i]))

RECURSIVE LexFrom(_, _, _)
LexFrom(s, i, acc) ==
    IF i > Len(s) THEN [ok |-> TRUE, toks |-> acc]
    ELSE LET c == s[i] IN
      IF c \in WhiteSpace THEN LexFrom(s, i + 1, acc)
      ELSE IF c \in Punct THEN LexFrom(s, i + 1, Append(acc, Tok(c, <<>>, 0)))
      ELSE IF c = "-"
      THEN IF i < Len(s) /\ s[i + 1] = "-"
           THEN LexFrom(s, i + 2, Append(acc, Tok("--", <<>>, 0)))
           ELSE LexFrom(s, i + 1, Append(acc, Tok("-", <<>>, 0)))
      ELSE IF c \in Digits
      THEN Bind(RunEnd(s, i, Digits), LAMBDA e :
           \* strict code: no legacy octal literal, and no identifier
           \* character straight after a numeric literal
           IF (c = "0" /\ e > i + 1) \/ (e <= Len(s) /\ s[e] \in IdStart)
           THEN LexFail
           ELSE LexFrom(s, e, Append(acc, Tok("num", <<>>, TextToNat(SubSeq(s, i, e - 1))))))
      ELSE IF c \in IdStart
      THEN Bind(RunEnd(s, i, IdPart), LAMBDA e :
           LexFrom(s, e, Append(acc, Tok("id", SubSeq(s, i, e - 1), 0))))
      ELSE IF c = QUOTE
      THEN Bind(LexString(s, i + 1, <<>>), LAMBDA r :
           IF r.ok THEN LexFrom(s, r.next, Append(acc, Tok("str", r.s, 0)))
           ELSE LexFail)
      ELSE LexFail

Lex(s) == LexFrom(s, 1, <<>>)

(***************************************************************************)
(* The evaluator, as a machine over the tokens with an explicit stack of   *)
(* open constructs.  A machine state is [mode, pos, stack, val]: pos the   *)
(* next token, val the value just completed.  Modes: "operand" (a unary    *)
(* expression starts here), "elem" (an array element, an elision or ']'),  *)
(* "key" (an object member or '}'), "postfix" (a primary value is          *)
(* complete), "have" (a unary expression is complete), "ok", "fail" (a     *)
(* SyntaxError, ReferenceError or TypeError).  A frame is [k, v, acc,      *)
(* key]: "neg" a pending unary minus, "sub" a pending binary minus with    *)
(* left operand v, "arr" an array literal with elements acc, "obj" an      *)
(* object literal v whose member key is being defined, "ckey" a computed   *)
(* member key, "idx" a bracket access on base v.                           *)
(***************************************************************************)
Kind(toks, p) == IF p <= Len(toks) THEN toks[p].k ELSE "eof"

Chars(word) ==
    CASE word = "true" -> <<"t", "r", "u", "e">>
      [] word = "false" -> <<"f", "a", "l", "s", "e">>
      [] word = "null" -> <<"n", "u", "l", "l">>
      [] word = "undefined" -> <<"u", "n", "d", "e", "f", "i", "n", "e", "d">>
      [] word = "NaN" -> <<"N", "a", "N">>

\* an identifier in expression position: the literals and the global
\* constants; any other name is unresolvable (ReferenceError)
EvalIdent(name) ==
    CASE name = Chars("true") -> [ok |-> TRUE, val |-> VBool(TRUE)]
      [] name = Chars("false") -> [ok |-> TRUE, val |-> VBool(FALSE)]
      [] name = Chars("null") -> [ok |-> TRUE, val |-> VNull]
      [] name = Chars("undefined") -> [ok |-> TRUE, val |-> VUndef]
      [] name = Chars("NaN") -> [ok |-> TRUE, val |-> VNaN]
      [] OTHER -> [ok |-> FALSE, val |-> VUndef]

Frame(k, v, acc, key) == [k |-> k, v |-> v, acc |-> acc, key |-> key]

Machine(mode, pos, stack, val) == [mode |-> mode, pos |-> pos, stack |-> stack, val |-> val]

Pop(stack) == Take(stack, Len(stack) - 1)

ReplaceTop(stack, f) == Append(Pop(stack), f)

\* a member key written as an identifier name, a string or a number
LiteralKey(tok) == IF tok.k = "num" THEN NumToText(tok.n) ELSE tok.s

EvalStep(toks, m) ==
    LET k == Kind(toks, m.pos)
        top == IF m.stack = <<>> THEN Frame("top", VUndef, <<>>, <<>>) ELSE m.stack[Len(m.stack)]
        fail == Machine("fail", m.pos, <<>>, VUndef)
    IN
    CASE m.mode = "operand" ->
           (CASE k = "-" ->
                   Machine("operand", m.pos + 1, Append(m.stack, Frame("neg", VUndef, <<>>, <<>>)), VUndef)
              [] k = "num" -> Machine("postfix", m.pos + 1, m.stack, VNum(toks[m.pos].n))
              [] k = "str" -> Machine("postfix", m.pos + 1, m.stack, VStr(toks[m.pos].s))
              [] k = "id" ->
                   IF EvalIdent(toks[m.pos].s).ok
                   THEN Machine("postfix", m.pos + 1, m.stack, EvalIdent(toks[m.pos].s).val)
                   ELSE fail
              [] k = "[" ->
                   Machine("elem", m.pos + 1, Append(m.stack, Frame("arr", VUndef, <<>>, <<>>)), VUndef)
              [] k = "{" ->
                   Machine("key", m.pos + 1,
                           Append(m.stack, Frame("obj", VObj(<<>>, <<>>), <<>>, <<>>)), VUndef)
              [] OTHER -> fail)
      [] m.mode = "elem" ->
           \* ']' ends the literal (after a comma: a trailing comma), a bare
           \* ',' is an elision
           (CASE k = "]" -> Machine("postfix", m.pos + 1, Pop(m.stack), VArr(top.acc))
              [] k = "," ->
                   Machine("elem", m.pos + 1,
                           ReplaceTop(m.stack, [top EXCEPT !.acc = Append(top.acc, VUndef)]), VUndef)
              [] OTHER -> Machine("operand", m.pos, m.stack, VUndef))
      [] m.mode = "key" ->
           \* a member is key ':' value; a shorthand member or a method is
           \* not a form the texts of the model can resolve
           (CASE k = "}" -> Machine("postfix", m.pos + 1, Pop(m.stack), top.v)
              [] k \in {"id", "str", "num"} /\ Kind(toks, m.pos + 1) = ":" ->
                   Machine("operand", m.pos + 2,
                           ReplaceTop(m.stack, [top EXCEPT !.key = LiteralKey(toks[m.pos])]), VUndef)
              [] k = "[" ->
                   Machine("operand", m.pos + 1, Append(m.stack, Frame("ckey", VUndef, <<>>, <<>>)),
                           VUndef)
              [] OTHER -> fail)
      [] m.mode = "postfix" ->
           \* base[expr]: a TypeError on undefined and null
           IF k = "["
           THEN IF m.val.t \in {"undefined", "null"} THEN fail
                ELSE Machine("operand", m.pos + 1, Append(m.stack, Frame("idx", m.val, <<>>, <<>>)),
                             VUndef)
           ELSE Machine("have", m.pos, m.stack, m.val)
      [] m.mode = "have" ->
           (CASE top.k = "neg" -> Machine("have", m.pos, Pop(m.stack), Negate(m.val))
              [] top.k = "sub" -> Machine("have", m.pos, Pop(m.stack), Minus(top.v, m.val))
              [] top.k \notin {"neg", "sub"} /\ k = "-" ->
                   Machine("operand", m.pos + 1, Append(m.stack, Frame("sub", m.val, <<>>, <<>>)),
                           VUndef)
              [] top.k = "arr" /\ k = "," ->
                   Machine("elem", m.pos + 1,
                           ReplaceTop(m.stack, [top EXCEPT !.acc = Append(top.acc, m.val)]), VUndef)
              [] top.k = "arr" /\ k = "]" ->
                   Machine("postfix", m.pos + 1, Pop(m.stack), VArr(Append(top.acc, m.val)))
              [] top.k = "obj" /\ k = "," ->
                   Machine("key", m.pos + 1,
                           ReplaceTop(m.stack, [top EXCEPT !.v = SetMember(top.v, top.key, m.val)]),
                           VUndef)
              [] top.k = "obj" /\ k = "}" ->
                   Machine("postfix", m.pos + 1, Pop(m.stack), SetMember(top.v, top.key, m.val))
              [] top.k = "ckey" /\ k = "]" /\ Kind(toks, m.pos + 1) = ":" ->
                   LET under == Pop(m.stack)
                       obj == under[Len(under)]
                   IN Machine("operand", m.pos + 2,
                              ReplaceTop(under, [obj EXCEPT !.key = PropKey(m.val)]), VUndef)
              \* the comma operator: the value on its left is dropped
              [] top.k \in {"idx", "top"} /\ k = "," ->
                   Machine("operand", m.pos + 1, m.stack, VUndef)
              [] top.k = "idx" /\ k = "]" ->
                   Machine("postfix", m.pos + 1, Pop(m.stack), GetMember(top.v, m.val))
              [] top.k = "top" /\ k = "eof" -> Machine("ok", m.pos, <<>>, m.val)
              [] OTHER -> fail)
      [] OTHER -> m

RECURSIVE EvalRun(_, _)
EvalRun(toks, m) ==
    Bind(m, LAMBDA cur :
        IF cur.mode \in {"ok", "fail"} THEN cur ELSE EvalRun(toks, EvalStep(toks, cur)))

\* eval(`(${processed})`): the text is one parenthesised Expression; the
\* outcome is [ok, val]
EvalText(text) ==
    Bind(Lex(text), LAMBDA lx :
        IF ~lx.ok THEN [ok |-> FALSE, val |-> VUndef]
        ELSE Bind(EvalRun(lx.toks, Machine("operand", 1, <<>>, VUndef)), LAMBDA m :
                 IF m.mode = "ok"
                 THEN [ok |-> TRUE, val |-> m.val]
                 ELSE [ok |-> FALSE, val |-> VUndef]))

(***************************************************************************)
(* preprocessTSON: comments are overwritten with spaces, block comments    *)
(* first, then line comments; neither pass looks at string literals.       *)
(***************************************************************************)
\* the index of the '*' of the first "*/" at or after j, or 0
RECURSIVE BlockClose(_, _)
BlockClose(s, j) ==
    IF j + 1 > Len(s) THEN 0
    ELSE IF s[j] = "*" /\ s[j + 1] = "/" THEN j
    ELSE BlockClose(s, j + 1)

\* processed.replace(/\/\*[\s\S]*?\*\//g, ' '.repeat(match.length))
RECURSIVE StripBlockComments(_, _, _)
StripBlockComments(s, i, acc) ==
    IF i > Len(s) THEN acc
    ELSE IF i + 1 <= Len(s) /\ s[i] = "/" /\ s[i + 1] = "*" /\ BlockClose(s, i + 2) > 0
    THEN LET e == BlockClose(s, i + 2) + 1 IN
         StripBlockComments(s, e + 1, acc \o Spaces(e - i + 1))
    ELSE StripBlockComments(s, i + 1, Append(acc, s[i]))

\* processed.replace(/\/\/.*$/gm, ' '.repeat(match.length))
RECURSIVE StripLineComments(_, _, _)
StripLineComments(s, i, acc) ==
    IF i > Len(s) THEN acc
    ELSE IF i + 1 <= Len(s) /\ s[i] = "/" /\ s[i + 1] = "/"
    THEN LET e == RunEnd(s, i, {c \in {s[k] : k \in 1..Len(s)} : c \notin {NL, "\r"}}) IN
         StripLineComments(s, e, acc \o Spaces(e - i))
    ELSE StripLineComments(s, i + 1, Append(acc, s[i]))

PreprocessTSON(tsn) == StripLineComments(StripBlockComments(tsn, 1, <<>>), 1, <<>>)

(***************************************************************************)
(* Schemas.  The schema validator is a library; the model has the schemas  *)
(* {type: "object"} and {type: "number"} and no schema.                    *)
(***************************************************************************)
NoSchema == "none"

Schemas == {"object", "number"}

SchemaAccepts(schema, v) ==
    CASE schema = "object" -> v.t = "obj"
      [] schema = "number" -> v.t = "num"
      [] OTHER -> TRUE

(***************************************************************************)
(* parse and the parse result cache                                        *)
(***************************************************************************)
CacheLimit == 1000

EmptyCache == [k \in {} |-> VUndef]

CacheSize(cache) == Cardinality(DOMAIN cache)

\* transformCache.set(key, value)
CacheSet(cache, key, v) == [k \in (DOMAIN cache) \cup {key} |-> IF k = key THEN v ELSE cache[k]]

\* a cache that is never cleared
ClearCacheIfNeeded_Never(cache) == cache

\* a cache that evicts one entry when it is over its limit
ClearCacheIfNeeded_DropOne(cache) ==
    IF CacheSize(cache) > CacheLimit
    THEN [k \in (DOMAIN cache) \ {CHOOSE d \in DOMAIN cache : TRUE} |-> cache[k]]
    ELSE cache

\* clearCacheIfNeeded()
ClearCacheIfNeeded(cache) == IF CacheSize(cache) > CacheLimit THEN EmptyCache ELSE cache

\* an optional number that was not given (undefined)
Undefined == 0 - 1

\* new TSONError(message, line, column, position); the message is kept as
\* its prefix and the message of the original error
TSONError(prefix, cause, line, column, position) ==
    [name |-> "TSONError", prefix |-> prefix, cause |-> cause,
     line |-> line, column |-> column, position |-> position]

\* the number of line breaks in a text
RECURSIVE BreakCount(_)
BreakCount(s) == IF s = <<>> THEN 0 ELSE (IF Head(s) = NL THEN 1 ELSE 0) + BreakCount(Tail(s))

\* the length of the last line of a text
RECURSIVE LastLineLen(_)
LastLineLen(s) ==
    IF s = <<>> \/ s[Len(s)] = NL THEN 0 ELSE 1 + LastLineLen(SubSeq(s, 1, Len(s) - 1))

\* getLineColumn(text, position): [line, column], both 1-based
GetLineColumn(text, position) ==
    [line |-> BreakCount(Take(text, position)) + 1,
     column |-> LastLineLen(Take(text, position)) + 1]

\* createDetailedError(originalError, tsn, position): line and column are
\* computed only when a position is given
CreateDetailedError(cause, tsn, position) ==
    IF position # Undefined
    THEN TSONError("Parse error: ", cause, GetLineColumn(tsn, position).line,
                   GetLineColumn(tsn, position).column, position)
    ELSE TSONError("Parse error: ", cause, Undefined, Undefined, position)

\* the two errors parse throws: the TSONError of a failed schema validation
\* on the hit path, and createDetailedError(error, tsn) for anything thrown
\* inside the try block; the latter is called without a position
SchemaError == TSONError("", "schema", Undefined, Undefined, Undefined)

DetailedError(cause, tsn) == CreateDetailedError(cause, tsn, Undefined)

NoError == [name |-> "", prefix |-> "", cause |-> "", line |-> Undefined,
            column |-> Undefined, position |-> Undefined]

\* parse(tsn, {schema}) on the cache: [ok, val, err, cache, hit]
ParseHit(cache, processed, schema) ==
    LET result == cache[processed] IN
    IF schema # NoSchema /\ ~SchemaAccepts(schema, result)
    THEN [ok |-> FALSE, val |-> VUndef, err |-> SchemaError, cache |-> cache, hit |-> TRUE]
    ELSE [ok |-> TRUE, val |-> result, err |-> NoError, cache |-> cache, hit |-> TRUE]

ParseMiss(cache, tsn, processed, schema) ==
    Bind(EvalText(processed), LAMBDA e :
        IF ~e.ok
        THEN [ok |-> FALSE, val |-> VUndef, err |-> DetailedError("syntax", tsn),
              cache |-> cache, hit |-> FALSE]
        ELSE Bind(ClearCacheIfNeeded(CacheSet(cache, processed, e.val)), LAMBDA stored :
                 IF schema # NoSchema /\ ~SchemaAccepts(schema, e.val)
                 THEN [ok |-> FALSE, val |-> VUndef, err |-> DetailedError("schema", tsn),
                       cache |-> stored, hit |-> FALSE]
                 ELSE [ok |-> TRUE, val |-> e.val, err |-> NoError, cache |-> stored,
                       hit |-> FALSE]))

Parse(cache, tsn, schema) ==
    Bind(PreprocessTSON(tsn), LAMBDA processed :
        IF processed \in DOMAIN cache
        THEN ParseHit(cache, processed, schema)
        ELSE ParseMiss(cache, tsn, processed, schema))

(***************************************************************************)
(* stringify                                                               *)
(***************************************************************************)
\* the escape JSON.stringify writes for a character of a string
JsonEscape(c) ==
    CASE c = QUOTE -> <<BSL, QUOTE>>
      [] c = BSL -> <<BSL, BSL>>
      [] c = NL -> <<BSL, "n">>
      [] c = "\t" -> <<BSL, "t">>
      [] c = "\r" -> <<BSL, "r">>
      [] OTHER -> <<c>>

RECURSIVE JsonEscapeFrom(_, _, _)
JsonEscapeFrom(s, i, acc) ==
    IF i > Len(s) THEN acc ELSE JsonEscapeFrom(s, i + 1, acc \o JsonEscape(s[i]))

\* JSON.stringify of a string
JsonQuote(s) == <<QUOTE>> \o JsonEscapeFrom(s, 1, <<>>) \o <<QUOTE>>

FunctionMark == <<"_", "_", "F", "U", "N", "C", "T", "I", "O", "N", "_", "_">>

\* replacer(key, value): a function becomes a marked string when
\* preserveFunctions is set
Replacer(v, preserveFunctions) ==
    IF v.t = "fun" /\ preserveFunctions THEN VStr(FunctionMark \o v.s \o FunctionMark) ELSE v

\* a line break and indentation written whatever the indent
JsonBreak_Always(indent, depth) == <<NL>> \o Spaces(indent * depth)

\* the line break and indentation JSON.stringify writes before an item at
\* the given depth (nothing when indent is 0)
JsonBreak(indent, depth) == IF indent > 0 THEN <<NL>> \o Spaces(indent * depth) ELSE <<>>

\* JSON.stringify(v, replacer, indent) at a nesting depth: [def, text];
\* def is FALSE for a value JSON leaves out (undefined, a function)
RECURSIVE JsonSer(_, _, _, _), JsonItems(_, _, _, _, _, _)
JsonSer(v0, depth, indent, pf) ==
    Bind(Replacer(v0, pf), LAMBDA v :
        CASE v.t = "null" -> [def |-> TRUE, text |-> Chars("null")]
          [] v.t = "nan" -> [def |-> TRUE, text |-> Chars("null")]
          [] v.t = "bool" -> [def |-> TRUE, text |-> IF v.n = 1 THEN Chars("true") ELSE Chars("false")]
          [] v.t = "num" -> [def |-> TRUE, text |-> NumToText(v.n)]
          [] v.t = "str" -> [def |-> TRUE, text |-> JsonQuote(v.s)]
          [] v.t \in {"arr", "obj"} ->
               Bind(JsonItems(v, 1, depth + 1, indent, pf, <<>>), LAMBDA items :
                   [def |-> TRUE,
                    text |-> <<IF v.t = "arr" THEN "[" ELSE "{">>
                             \o (IF items = <<>> THEN <<>>
                                 ELSE items \o JsonBreak(indent, depth))
                             \o <<IF v.t = "arr" THEN "]" ELSE "}">>])
          [] OTHER -> [def |-> FALSE, text |-> <<>>])

\* the items of an array or object from the i-th on, each after its line
\* break, separated by commas: an array item JSON leaves out is written
\* null, an object member JSON leaves out is skipped
JsonItems(v, i, depth, indent, pf, acc) ==
    IF i > Len(v.kids) THEN acc
    ELSE Bind(JsonSer(v.kids[i], depth, indent, pf), LAMBDA item :
             IF v.t = "obj" /\ ~item.def THEN JsonItems(v, i + 1, depth, indent, pf, acc)
             ELSE JsonItems(v, i + 1, depth, indent, pf,
                            acc \o (IF acc = <<>> THEN <<>> ELSE <<",">>)
                                \o JsonBreak(indent, depth)
                                \o (IF v.t = "obj"
                                    THEN JsonQuote(v.keys[i]) \o <<":">>
                                         \o (IF indent > 0 THEN <<SP>> ELSE <<>>)
                                    ELSE <<>>)
                                \o (IF item.def THEN item.text ELSE Chars("null"))))

MatchAt(s, i, pat) == i + Len(pat) - 1 <= Len(s) /\ SubSeq(s, i, i + Len(pat) - 1) = pat

\* the start of the first FunctionMark-and-quote at or after j that is
\* reached without crossing a line break ('.' matches none), or 0
RECURSIVE FunctionEnd(_, _)
FunctionEnd(s, j) ==
    IF j > Len(s) THEN 0
    ELSE IF MatchAt(s, j, FunctionMark \o <<QUOTE>>) THEN j
    ELSE IF s[j] \in {NL, "\r"} THEN 0
    ELSE FunctionEnd(s, j + 1)

\* json.replace(/"__FUNCTION__(.*?)__FUNCTION__"/g, '$1')
RECURSIVE UnwrapFunctions(_, _, _)
UnwrapFunctions(s, i, acc) ==
    IF i > Len(s) THEN acc
    ELSE IF MatchAt(s, i, <<QUOTE>> \o FunctionMark)
    THEN Bind(FunctionEnd(s, i + 13), LAMBDA e :
             IF e > 0
             THEN UnwrapFunctions(s, e + 13, acc \o SubSeq(s, i + 13, e - 1))
             ELSE UnwrapFunctions(s, i + 1, Append(acc, s[i])))
    ELSE UnwrapFunctions(s, i + 1, Append(acc, s[i]))

\* the index of the first double quote at or after j, or 0
RECURSIVE NextQuote(_, _)
NextQuote(s, j) ==
    IF j > Len(s) THEN 0 ELSE IF s[j] = QUOTE THEN j ELSE NextQuote(s, j + 1)

\* the minify branch: json.replace(/"([^"]+)":/g, '$1:')
RECURSIVE UnquoteKeys(_, _, _)
UnquoteKeys(s, i, acc) ==
    IF i > Len(s) THEN acc
    ELSE IF s[i] = QUOTE
    THEN Bind(NextQuote(s, i + 1), LAMBDA q :
             IF q > i + 1 /\ q + 1 <= Len(s) /\ s[q + 1] = ":"
             THEN UnquoteKeys(s, q + 2, acc \o SubSeq(s, i + 1, q - 1) \o <<":">>)
             ELSE UnquoteKeys(s, i + 1, Append(acc, s[i])))
    ELSE UnquoteKeys(s, i + 1, Append(acc, s[i]))

\* one round of the for loop of the non-minified branch, at index i
\* (1-based); st is [inString, escapeNext, result]
QuoteScanStep(json, i, st) ==
    LET char == json[i]
        hasNext == i + 1 <= Len(json)
    IN
    IF st.escapeNext THEN [st EXCEPT !.result = Append(st.result, char), !.escapeNext = FALSE]
    ELSE IF char = BSL THEN [st EXCEPT !.result = Append(st.result, char), !.escapeNext = TRUE]
    ELSE IF char = QUOTE /\ ~st.inString /\ hasNext /\ json[i + 1] \in IdStart
    THEN [st EXCEPT !.inString = TRUE]
    ELSE IF char = QUOTE /\ st.inString /\ hasNext /\ json[i + 1] = ":"
    THEN [st EXCEPT !.inString = FALSE]
    ELSE IF char = "," /\ hasNext /\ json[i + 1] = NL THEN st
    ELSE [st EXCEPT !.result = Append(st.result, char)]

RECURSIVE QuoteScan(_, _, _)
QuoteScan(json, i, st) ==
    Bind(st, LAMBDA cur :
        IF i > Len(json) THEN cur.result ELSE QuoteScan(json, i + 1, QuoteScanStep(json, i, cur)))

\* stringify(obj, {preserveFunctions, minify}): [ok, text]; ok is FALSE
\* when JSON.stringify returns undefined and the code that follows throws
\* a TypeError on it
Stringify(obj, options) ==
    Bind(JsonSer(obj, 0, IF options.minify THEN 0 ELSE 2, options.preserveFunctions),
         LAMBDA j :
        IF ~j.def THEN [ok |-> FALSE, text |-> <<>>]
        ELSE Bind(IF options.preserveFunctions THEN UnwrapFunctions(j.text, 1, <<>>) ELSE j.text,
                  LAMBDA json :
                 [ok |-> TRUE,
                  text |-> IF options.minify THEN UnquoteKeys(json, 1, <<>>)
                           ELSE QuoteScan(json, 1, [inString |-> FALSE, escapeNext |-> FALSE,
                                                    result |-> <<>>])]))

(***************************************************************************)
(* performance.ts: stringifyOptimized                                      *)
(***************************************************************************)
\* indent.repeat(depth), '' when minify
OptIndent(minify, depth) == IF minify THEN <<>> ELSE Spaces(2 * depth)

OptNewline(minify) == IF minify THEN <<>> ELSE <<NL>>

\* builder.append(`"${value}"`)
OptString(s) == <<QUOTE>> \o s \o <<QUOTE>>

\* stringifyValue(value, depth): the text appended to the builder; nothing
\* is appended for undefined and for a function
RECURSIVE StringifyValue(_, _, _), OptItems(_, _, _, _, _)
StringifyValue(v, depth, minify) ==
    CASE v.t = "null" -> Chars("null")
      [] v.t = "bool" -> IF v.n = 1 THEN Chars("true") ELSE Chars("false")
      [] v.t = "num" -> NumToText(v.n)
      [] v.t = "nan" -> Chars("NaN")
      [] v.t = "str" -> OptString(v.s)
      [] v.t \in {"arr", "obj"} ->
           <<IF v.t = "arr" THEN "[" ELSE "{">>
           \o (IF v.kids = <<>> THEN <<>>
               ELSE OptNewline(minify) \o OptItems(v, 1, depth, minify, <<>>)
                    \o OptIndent(minify, depth))
           \o <<IF v.t = "arr" THEN "]" ELSE "}">>
      [] OTHER -> <<>>

\* the for loop over the items of an array or the keys of an object
OptItems(v, i, depth, minify, acc) ==
    IF i > Len(v.kids) THEN acc
    ELSE Bind(StringifyValue(v.kids[i], depth + 1, minify), LAMBDA item :
             OptItems(v, i + 1, depth, minify,
                      acc \o OptIndent(minify, depth + 1)
                          \o (IF v.t = "obj" THEN v.keys[i] \o <<":", SP>> ELSE <<>>)
                          \o item
                          \o (IF i < Len(v.kids) THEN <<",">> ELSE <<>>)
                          \o OptNewline(minify)))

\* stringifyOptimized(obj, {minify})
StringifyOptimized(obj, options) == StringifyValue(obj, 0, options.minify)

(***************************************************************************)
(* State                                                                   *)
(***************************************************************************)
VARIABLES
    transformCache,  \* index.ts: the module's Map from processed text to value
    \* one parse stream and its writer
    streamText,      \* the text the writer sends
    unwritten,       \* the bytes of streamText not yet written
    chunks,          \* the chunks (Buffers) written so far
    buffer,          \* createParseStream: let buffer
    emitted,         \* the values pushed to the readable side, in order
    spans,           \* the texts (objectStr) of the values transform pushed, in order
    streamErrors,    \* the errors emitted with this.emit('error', ...)
    streamPhase,     \* "open", or "ended" once flush has run
    \* one parseParallel(files, maxWorkers) call
    files,           \* the jobs: a sequence of [content, schema]
    maxWorkers,
    callState,       \* "loop" (at the test of the for loop), "batch" (in its body),
                     \* "await" (at await Promise.all), "resolved" or "rejected"
    loopI,           \* the loop variable i
    jobs,            \* const workers: one [index, file, w, p] per started job, in
                     \* start order; w is the state of its worker thread, p of its
                     \* promise
    results,         \* const results
    lastSettled,     \* the job whose promise settled last (0: none yet)
    callError,       \* the error parseParallel rejected with
    \* a caller of parse
    nextFresh,       \* the number of different numeric texts parsed so far
    lastParse,       \* the outcome of the last parse call, and whether the caller
                     \* has changed the value it returned
    lastValidate,    \* the outcome of the last validate call
    lastDetailed,    \* the outcome of the last validateDetailed call
    \* a caller of stringify, who parses the text it returns
    strValue,        \* the value given to stringify
    strOptions,      \* its options [minify, preserveFunctions]
    strFn,           \* the function called: "stringify" or "stringifyOptimized"
    strPc,           \* "start", "stringified", "threw" or "parsed"
    strText,         \* the text stringify returned
    strParsed,       \* the outcome [ok, val] of parse on that text
    \* performance.ts and a caller of parseIncremental
    parseStateCache, \* the module's Map from key to ParseState
    now,             \* Date.now(), in milliseconds since the caller started
    lastIncr,        \* the outcome of the parseIncremental call that just returned
    \* one run of the command line program
    argv,            \* [command, file]: process.argv.slice(2), "" and <<>> when absent
    disk,            \* the files: a function from the paths that exist to their text
    written,         \* the paths writeFileSync wrote, in order
    exitCode         \* Undefined while the program runs, then its exit code

streamVars == <<streamText, unwritten, chunks, buffer, emitted, spans, streamErrors,
                streamPhase>>

parVars == <<files, maxWorkers, callState, loopI, jobs, results, lastSettled,
             callError>>

callerVars == <<nextFresh, lastParse, lastValidate, lastDetailed>>

strVars == <<strValue, strOptions, strFn, strPc, strText, strParsed>>

incrVars == <<parseStateCache, now, lastIncr>>

cliVars == <<argv, disk, written, exitCode>>

vars == <<transformCache, streamVars, parVars, callerVars, strVars, incrVars, cliVars>>

\* the parts of the state a specification does not use
StreamIdle ==
    /\ streamText = <<>>
    /\ unwritten = <<>>
    /\ chunks = <<>>
    /\ buffer = <<>>
    /\ emitted = <<>>
    /\ spans = <<>>
    /\ streamErrors = <<>>
    /\ streamPhase = "idle"

NoCallError == [name |-> "", failures |-> {}]

ParIdle ==
    /\ files = <<>>
    /\ maxWorkers = 0
    /\ callState = "idle"
    /\ loopI = 0
    /\ jobs = <<>>
    /\ results = <<>>
    /\ lastSettled = 0
    /\ callError = NoCallError

NoParse == [called |-> FALSE, text |-> <<>>, schema |-> NoSchema, ok |-> FALSE, val |-> VUndef,
            hit |-> FALSE, err |-> NoError, mutated |-> FALSE]

\* no validate or validateDetailed call yet
NoValidate ==
    [called |-> FALSE, text |-> <<>>, schema |-> NoSchema, threw |-> FALSE, valid |-> FALSE,
     hasError |-> FALSE, error |-> <<>>, errors |-> <<>>]

CallerIdle ==
    /\ nextFresh = 0
    /\ lastParse = NoParse
    /\ lastValidate = NoValidate
    /\ lastDetailed = NoValidate

NoOptions == [minify |-> FALSE, preserveFunctions |-> FALSE]

NoOutcome == [ok |-> FALSE, val |-> VUndef]

StrIdle ==
    /\ strValue = VUndef
    /\ strOptions = NoOptions
    /\ strFn = ""
    /\ strPc = "idle"
    /\ strText = <<>>
    /\ strParsed = NoOutcome

EmptyStateCache == [k \in {} |-> 0]

NoIncr == [called |-> FALSE, content |-> <<>>, key |-> 0, schema |-> NoSchema, wrote |-> FALSE,
           ok |-> FALSE, val |-> VUndef]

IncrIdle ==
    /\ parseStateCache = EmptyStateCache
    /\ now = 0
    /\ lastIncr = NoIncr

NoFiles == [f \in {} |-> <<>>]

CliIdle ==
    /\ argv = [command |-> "", file |-> <<>>]
    /\ disk = NoFiles
    /\ written = <<>>
    /\ exitCode = Undefined

(***************************************************************************)
(* createParseStream                                                       *)
(***************************************************************************)
\* buffer.slice(start, end) for 0 <= start, end (0-based, end exclusive)
Slice(s, start, end) == SubSeq(s, start + 1, IF end > Len(s) THEN Len(s) ELSE end)

\* a transform that keeps the consumed spans in the buffer
Retain_KeepAll(buf, start) == buf

\* buffer = buffer.slice(start)
Retain(buf, start) == Slice(buf, start, Len(buf))

\* the character U+00E9 and the replacement character U+FFFD
EAcute == "U+00E9"

Replacement == "U+FFFD"

\* the two bytes of U+00E9 in UTF-8; the byte of an ASCII character is
\* written as the character
LeadByte == "0xC3"

ContByte == "0xA9"

\* Buffer.from(text): the UTF-8 bytes of a text
RECURSIVE Utf8Encode(_)
Utf8Encode(text) ==
    IF text = <<>> THEN <<>>
    ELSE (IF Head(text) = EAcute THEN <<LeadByte, ContByte>> ELSE <<Head(text)>>)
         \o Utf8Encode(Tail(text))

\* chunk.toString(): the bytes of the chunk decoded as UTF-8 on their own;
\* a lead byte without its continuation byte and a continuation byte
\* without its lead byte each become U+FFFD
RECURSIVE BufferToString(_)
BufferToString(bytes) ==
    IF bytes = <<>> THEN <<>>
    ELSE IF Len(bytes) >= 2 /\ bytes[1] = LeadByte /\ bytes[2] = ContByte
    THEN <<EAcute>> \o BufferToString(Tail(Tail(bytes)))
    ELSE IF bytes[1] \in {LeadByte, ContByte}
    THEN <<Replacement>> \o BufferToString(Tail(bytes))
    ELSE <<bytes[1]>> \o BufferToString(Tail(bytes))

\* if (buffer[i] === '{') braceCount++; if (buffer[i] === '}') braceCount--;
CountBrace(braceCount, c) ==
    IF c = "{" THEN braceCount + 1 ELSE IF c = "}" THEN braceCount - 1 ELSE braceCount

\* a catch block that emits the error of a failed speculative parse
Caught_Emit(st, error) == [st EXCEPT !.errors = Append(st.errors, error)]

\* catch (error) { /* Continue accumulating */ }
Caught(st, error) == st

\* the for loop of transform from index i (0-based) on; st is
\* [braceCount, start, out, spans, errors, cache], out the values pushed,
\* spans their texts and errors the errors emitted by this call
RECURSIVE ScanBuffer(_, _, _, _)
ScanStep(buf, i, st, schema) ==
    LET bc == CountBrace(st.braceCount, buf[i + 1]) IN
    IF bc = 0 /\ i > st.start
    THEN Bind(Parse(st.cache, Slice(buf, st.start, i + 1), schema), LAMBDA r :
             IF r.ok
             THEN [braceCount |-> bc, start |-> i + 1, out |-> Append(st.out, r.val),
                   spans |-> Append(st.spans, Slice(buf, st.start, i + 1)),
                   errors |-> st.errors, cache |-> r.cache]
             ELSE Caught([st EXCEPT !.braceCount = bc, !.cache = r.cache], r.err))
    ELSE [st EXCEPT !.braceCount = bc]

ScanBuffer(buf, i, st, schema) ==
    Bind(st, LAMBDA cur :
        IF i >= Len(buf) THEN cur ELSE ScanBuffer(buf, i + 1, ScanStep(buf, i, cur, schema), schema))

\* transform(chunk): [buffer, out, spans, errors, cache]
Transform(buf0, cache, chunk, schema) ==
    Bind(ScanBuffer(buf0 \o chunk, 0,
                    [braceCount |-> 0, start |-> 0, out |-> <<>>, spans |-> <<>>,
                     errors |-> <<>>, cache |-> cache], schema),
         LAMBDA st : [buffer |-> Retain(buf0 \o chunk, st.start), out |-> st.out,
                      spans |-> st.spans, errors |-> st.errors, cache |-> st.cache])

\* buffer.trim()
IsBlank(s) == \A i \in 1..Len(s) : s[i] \in WhiteSpace

(***************************************************************************)
(* The parse stream and a writer that sends streamText in at most          *)
(* MaxChunks chunks and then ends the stream.                              *)
(***************************************************************************)
MaxChunks == 3

TextAB == <<"{", "a", ":", "1", "}", "{", "b", ":", "2", "}">>

\* {a:"}"}{b:2}: two objects, the first with a brace in a string value
TextBraceInString ==
    <<"{", "a", ":", QUOTE, "}", QUOTE, "}", "{", "b", ":", "2", "}">>

\* {a:"}"}: one object with a brace in a string value
TextOneBrace == <<"{", "a", ":", QUOTE, "}", QUOTE, "}">>

\* 12 3: two numbers
TextNumbers == <<"1", "2", SP, "3">>

\* {a:"\u00e9"} with the character itself in the string
TextAccent == <<"{", "a", ":", QUOTE, EAcute, QUOTE, "}">>

StreamTexts ==
    { TextAB, TextBraceInString, TextOneBrace, TextNumbers, TextAccent,
      <<"{", "a", ":", "{", "b", ":", "1", "}", "}", SP, "{", "}">>,
      <<"{", "a", ":", "1", "}", NL, "{", "b", ":">> }

StreamInit ==
    /\ transformCache = EmptyCache
    /\ streamText \in StreamTexts
    /\ unwritten = Utf8Encode(streamText)
    /\ chunks = <<>>
    /\ buffer = <<>>
    /\ emitted = <<>>
    /\ spans = <<>>
    /\ streamErrors = <<>>
    /\ streamPhase = "open"
    /\ ParIdle
    /\ CallerIdle
    /\ StrIdle
    /\ IncrIdle
    /\ CliIdle

\* stream.write(chunk): the transform callback on a Buffer of the next n
\* bytes
StreamWrite(n) ==
    /\ streamPhase = "open"
    /\ Len(chunks) < MaxChunks
    /\ \E r \in {Transform(buffer, transformCache, BufferToString(Take(unwritten, n)),
                           NoSchema)} :
          /\ buffer' = r.buffer
          /\ emitted' = emitted \o r.out
          /\ spans' = spans \o r.spans
          /\ streamErrors' = streamErrors \o r.errors
          /\ transformCache' = r.cache
    /\ chunks' = Append(chunks, Take(unwritten, n))
    /\ unwritten' = Drop(unwritten, n)
    /\ UNCHANGED <<streamText, streamPhase>>
    /\ UNCHANGED <<parVars, callerVars, strVars, incrVars, cliVars>>

\* stream.end(): the flush callback
StreamEnd ==
    /\ streamPhase = "open"
    /\ unwritten = <<>>
    /\ IF IsBlank(buffer)
       THEN UNCHANGED <<emitted, streamErrors, transformCache>>
       ELSE \E r \in {Parse(transformCache, buffer, NoSchema)} :
               /\ emitted' = IF r.ok THEN Append(emitted, r.val) ELSE emitted
               /\ streamErrors' = IF r.ok THEN streamErrors ELSE Append(streamErrors, r.err)
               /\ transformCache' = r.cache
    /\ streamPhase' = "ended"
    /\ UNCHANGED <<streamText, unwritten, chunks, buffer, spans>>
    /\ UNCHANGED <<parVars, callerVars, strVars, incrVars, cliVars>>

StreamNext ==
    \/ \E n \in 0..Len(unwritten) : StreamWrite(n)
    \/ StreamEnd

SpecStream == StreamInit /\ [][StreamNext]_vars

\* C1: writing {a:1}{b:2} as two chunks cut at any position and ending the
\* stream emits exactly the object {a:1} and then the object {b:2}, and no
\* error
C1_TwoChunksTwoValues ==
    (streamText = TextAB /\ Len(chunks) = 2 /\ streamPhase = "ended")
        => /\ emitted = <<VObj(<< <<"a">> >>, <<VNum(1)>>), VObj(<< <<"b">> >>, <<VNum(2)>>)>>
           /\ streamErrors = <<>>

\* the cut falls inside the literal 1} and the stream has ended
C1_Witness ==
    /\ streamText = TextAB
    /\ streamPhase = "ended"
    /\ chunks = <<Take(TextAB, 4), Drop(TextAB, 4)>>
    /\ Len(emitted) = 2

(***************************************************************************)
(* performance.ts: parseInWorker and parseParallel                         *)
(***************************************************************************)
\* Array.prototype.slice(start, end): a negative index counts from the end
SliceIndex(len, k) == IF k < 0 THEN (IF len + k < 0 THEN 0 ELSE len + k)
                      ELSE (IF k > len THEN len ELSE k)

JsSlice(seq, start, end) ==
    SubSeq(seq, SliceIndex(Len(seq), start) + 1, SliceIndex(Len(seq), end))

\* a parse that starts a job whose result lands at the index in its batch
GlobalIndex_InBatch(i, batchIndex) == batchIndex

\* const globalIndex = i + batchIndex
GlobalIndex(i, batchIndex) == i + batchIndex

\* error.message of a TSONError, as the two parts createDetailedError
\* joins
ErrorMessage(err) ==
    <<err.prefix, err.cause>>
    \o (IF err.line > 0
        THEN <<" at line ">> \o NatToText(err.line) \o <<", column ">> \o NatToText(err.column)
        ELSE <<>>)

\* the worker thread handler: parse in the worker's own module instance
\* (its own, empty transformCache) and post the result, or post
\* {error: message} when parse throws
WorkerReply(file) ==
    Bind(Parse(EmptyCache, file.content, file.schema), LAMBDA r :
        IF r.ok THEN r.val
        ELSE VObj(<< <<"e", "r", "r", "o", "r">> >>, <<VStr(ErrorMessage(r.err))>>))

\* new Error(`Failed to parse file at index ${globalIndex}: ${error}`)
IndexError(index, cause) == [name |-> "Error", failures |-> {[index |-> index, cause |-> cause]}]

\* is the promise of Promise.all(workers) fulfilled: every input is
AllFulfilled(js) == \A j \in 1..Len(js) : js[j].p = "fulfilled"

InFlight == Cardinality({j \in 1..Len(jobs) : jobs[j].p = "pending"})

MaxFiles == 3

MaxWorkersArg == 2

FileA == [content |-> <<"{", "a", ":", "1", "}">>, schema |-> NoSchema]

FileB == [content |-> <<"[", "2", "]">>, schema |-> NoSchema]

FileC == [content |-> <<"7">>, schema |-> NoSchema]

FileBad == [content |-> <<"{", "a", ":">>, schema |-> NoSchema]

ParFiles == {FileA, FileB, FileC, FileBad}

ParInit ==
    /\ transformCache = EmptyCache
    /\ StreamIdle
    /\ CallerIdle
    /\ StrIdle
    /\ IncrIdle
    /\ CliIdle
    /\ files \in UNION {[1..n -> ParFiles] : n \in 0..MaxFiles}
    /\ maxWorkers \in (0 - 1)..MaxWorkersArg
    /\ callState = "loop"
    /\ loopI = 0
    /\ jobs = <<>>
    /\ results = [k \in 1..Len(files) |-> VUndef]
    /\ lastSettled = 0
    /\ callError = NoCallError

\* the test i < files.length of the for loop holds: its body is entered
ParLoopTest ==
    /\ callState = "loop"
    /\ loopI < Len(files)
    /\ callState' = "batch"
    /\ UNCHANGED <<files, maxWorkers, loopI, jobs, results, lastSettled, callError>>
    /\ UNCHANGED <<transformCache, streamVars, callerVars, strVars, incrVars, cliVars>>

\* the body of the for loop and i += maxWorkers: the batch is cut and a
\* worker is started for every file of it (parseInWorker runs up to its
\* first await inside batch.map). With maxWorkers <= 0 the loop never ends;
\* an i below -files.length passes the test and cuts the empty batches
\* that -files.length does, and is kept as -files.length
ParStartBatch ==
    /\ callState = "batch"
    /\ \E batch \in {JsSlice(files, loopI, loopI + maxWorkers)} :
          jobs' = jobs \o [b \in 1..Len(batch) |->
                             [index |-> GlobalIndex(loopI, b - 1), file |-> batch[b],
                              w |-> "running", p |-> "pending"]]
    /\ loopI' = IF loopI + maxWorkers < 0 - Len(files) THEN 0 - Len(files)
                ELSE loopI + maxWorkers
    /\ callState' = "loop"
    /\ UNCHANGED <<files, maxWorkers, results, lastSettled, callError>>
    /\ UNCHANGED <<transformCache, streamVars, callerVars, strVars, incrVars, cliVars>>

\* the loop ends: await Promise.all(workers), fulfilled at once for no
\* workers
ParAwait ==
    /\ callState = "loop"
    /\ loopI >= Len(files)
    /\ callState' = IF jobs = <<>> THEN "resolved" ELSE "await"
    /\ UNCHANGED <<files, maxWorkers, loopI, jobs, results, lastSettled, callError>>
    /\ UNCHANGED <<transformCache, streamVars, callerVars, strVars, incrVars, cliVars>>

\* the promise of job j is rejected: the catch of the batch function wraps
\* the cause, and Promise.all rejects with the first rejection
RejectJob(j, wNext, cause) ==
    /\ jobs' = [jobs EXCEPT ![j].w = wNext, ![j].p = "rejected"]
    /\ lastSettled' = j
    /\ IF callState = "await"
       THEN /\ callState' = "rejected"
            /\ callError' = IndexError(jobs[j].index, cause)
       ELSE UNCHANGED <<callState, callError>>
    /\ UNCHANGED results

\* worker.on('message', resolve): the job stores the message at its index;
\* once every promise is fulfilled parseParallel returns results
WorkerMessage(j) ==
    /\ callState \in {"await", "rejected"}
    /\ jobs[j].w = "running"
    /\ jobs' = [jobs EXCEPT ![j].w = "messaged", ![j].p = "fulfilled"]
    /\ results' = [results EXCEPT ![jobs[j].index + 1] = WorkerReply(jobs[j].file)]
    /\ lastSettled' = j
    /\ callState' = IF callState = "await" /\ AllFulfilled(jobs') THEN "resolved" ELSE callState
    /\ UNCHANGED <<files, maxWorkers, loopI, callError>>
    /\ UNCHANGED <<transformCache, streamVars, callerVars, strVars, incrVars, cliVars>>

\* worker.on('error', reject): the worker thread died of an uncaught
\* exception
WorkerError(j) ==
    /\ callState \in {"await", "rejected"}
    /\ jobs[j].w = "running"
    /\ RejectJob(j, "errored", "error")
    /\ UNCHANGED <<files, maxWorkers, loopI>>
    /\ UNCHANGED <<transformCache, streamVars, callerVars, strVars, incrVars, cliVars>>

\* worker.on('exit', ...) for a worker that exits before it has posted
\* anything, with either code: only a non-zero code rejects. (The exit of a
\* worker that has posted its message or raised its error finds the promise
\* settled and changes nothing.)
WorkerExit(j, code) ==
    /\ callState \in {"await", "rejected"}
    /\ jobs[j].w = "running"
    /\ IF code # 0
       THEN RejectJob(j, "exited", "exit")
       ELSE /\ jobs' = [jobs EXCEPT ![j].w = "exited"]
            /\ UNCHANGED <<results, lastSettled, callState, callError>>
    /\ UNCHANGED <<files, maxWorkers, loopI>>
    /\ UNCHANGED <<transformCache, streamVars, callerVars, strVars, incrVars, cliVars>>

ParNext ==
    \/ ParLoopTest
    \/ ParStartBatch
    \/ ParAwait
    \/ \E j \in 1..Len(jobs) : WorkerMessage(j)
    \/ \E j \in 1..Len(jobs) : WorkerError(j)
    \/ \E j \in 1..Len(jobs), code \in {0, 1} : WorkerExit(j, code)

SpecPar == ParInit /\ [][ParNext]_vars

\* does the content of a job parse (in a fresh module instance)
ParsesOk(file) == Parse(EmptyCache, file.content, file.schema).ok

\* C2: during a parseParallel call at no moment are more than maxWorkers
\* worker jobs in flight (started and not yet settled)
C2_InFlightBounded == (callState # "idle" /\ maxWorkers >= 1) => InFlight <= maxWorkers

\* C3: when every job succeeds, parseParallel resolves with an array of the
\* length of files in which position i holds the result of parsing
\* files[i].content, whatever the order in which the jobs complete
C3_ResultsInInputOrder ==
    (callState = "resolved" /\ \A k \in 1..Len(files) : ParsesOk(files[k]))
        => /\ Len(results) = Len(files)
           /\ \A k \in 1..Len(files) : results[k] = EvalText(files[k].content).val

\* three different jobs in batches of two, the middle one completing last
C3_Witness ==
    /\ callState = "resolved"
    /\ files = <<FileA, FileB, FileC>>
    /\ maxWorkers = 2
    /\ lastSettled = 2

\* C4: when a job fails the other jobs still run to completion, and the
\* promise of parseParallel settles only after every job of the call has
\* settled
C4_SettlesAfterEveryJob ==
    callState \in {"resolved", "rejected"}
        => /\ Len(jobs) = Len(files)
           /\ \A j \in 1..Len(jobs) : jobs[j].p \in {"fulfilled", "rejected"}

\* C5: when jobs fail the call fails with an error that lists an (index,
\* cause) pair for every failed job, not only for the first one
C5_AggregatesEveryFailure ==
    callState = "rejected"
        => \A j \in 1..Len(jobs) :
              jobs[j].p = "rejected" => \E f \in callError.failures : f.index = jobs[j].index

\* C6: a job whose content fails to parse in its worker is a failure:
\* parseInWorker rejects, parseParallel fails, and the parse failure is
\* never a result value of a resolved call
C6_ParseFailureSurfaces ==
    /\ \A j \in 1..Len(jobs) : jobs[j].p = "fulfilled" => ParsesOk(jobs[j].file)
    /\ callState = "resolved" => \A k \in 1..Len(files) : ParsesOk(files[k])

(***************************************************************************)
(* A caller of parse: it parses one text after the other, each time a      *)
(* numeric text not parsed before, the text {} or the unfinished text {,   *)
(* with or without the schema {type: "object"}.                            *)
(***************************************************************************)
\* the numeric texts are those of 0 .. MaxFresh - 1
MaxFresh == 1002

EmptyObjectText == <<"{", "}">>

UnfinishedText == <<"{">>

\* { a: }: a member without its value
MissingValueText == <<"{", SP, "a", ":", SP, "}">>

CallerInit ==
    /\ transformCache = EmptyCache
    /\ StreamIdle
    /\ ParIdle
    /\ StrIdle
    /\ IncrIdle
    /\ CliIdle
    /\ nextFresh = 0
    /\ lastParse = NoParse
    /\ lastValidate = NoValidate
    /\ lastDetailed = NoValidate

\* parse(text, {schema}), returning or throwing
CallParse(text, schema) ==
    /\ \E r \in {Parse(transformCache, text, schema)} :
          /\ transformCache' = r.cache
          /\ lastParse' = [called |-> TRUE, text |-> text, schema |-> schema, ok |-> r.ok,
                           val |-> r.val, hit |-> r.hit, err |-> r.err, mutated |-> FALSE]
    /\ UNCHANGED <<lastValidate, lastDetailed>>
    /\ UNCHANGED <<streamVars, parVars, strVars, incrVars, cliVars>>

ParseFresh(schema) ==
    /\ nextFresh < MaxFresh
    /\ CallParse(NatToText(nextFresh), schema)
    /\ nextFresh' = nextFresh + 1

ParseFixed(text, schema) ==
    /\ CallParse(text, schema)
    /\ UNCHANGED nextFresh

CallerNext ==
    \/ \E schema \in {NoSchema, "object"} : ParseFresh(schema)
    \/ \E schema \in {NoSchema, "object"} : ParseFixed(EmptyObjectText, schema)
    \/ \E text \in {UnfinishedText, MissingValueText} : ParseFixed(text, NoSchema)

SpecCache == CallerInit /\ [][CallerNext]_vars

\* C7: whenever a parse call has returned or thrown, transformCache holds
\* at most 1000 entries
C7_CacheBounded == CacheSize(transformCache) <= CacheLimit

\* more than 1000 different texts have been parsed and the last call was a
\* miss that left the cache within its bound
C7_Witness ==
    /\ nextFresh > CacheLimit
    /\ lastParse.called /\ ~lastParse.hit
    /\ CacheSize(transformCache) < CacheLimit

(***************************************************************************)
(* A caller of stringify: it stringifies a value and parses the text.      *)
(***************************************************************************)
Bob == <<"B", "o", "b">>

StrAtoms == {VNull, VBool(TRUE), VNum(1), VNum(28), VStr(Bob), VStr(<<"4", "2">>)}

\* strings with a quote, a line break and a backslash in them
SpecialStrings == {<<"a", QUOTE, "b">>, <<"a", NL, "b">>, <<"a", BSL, "b">>, <<QUOTE>>}

\* the source texts ()=>1 and ()=>"a" of two functions
FunctionSources ==
    {<<"(", ")", "=", ">", "1">>, <<"(", ")", "=", ">", QUOTE, "a", QUOTE>>}

\* has the value no function in it
RECURSIVE NoFunction(_)
NoFunction(v) == v.t # "fun" /\ \A i \in 1..Len(v.kids) : NoFunction(v.kids[i])

StrKeys == {<<"a">>, <<"b">>, <<"a", "-", "b">>, <<"a", SP, "b">>, <<"1", "a">>}

NameAge == VObj(<< <<"n", "a", "m", "e">>, <<"a", "g", "e">> >>, <<VStr(Bob), VNum(28)>>)

\* {a:1,b:{c:2}}
NestedABC == VObj(<< <<"a">>, <<"b">> >>, <<VNum(1), VObj(<< <<"c">> >>, <<VNum(2)>>)>>)

StrNested ==
    { NameAge, NestedABC,
      VArr(<<VArr(<<VNum(1)>>), VArr(<<VNum(28)>>)>>),
      VObj(<< <<"a">> >>, <<VObj(<< <<"b">> >>, <<VNum(1)>>)>>),
      VObj(<< <<"a">>, <<"b">> >>, <<VArr(<<VStr(Bob), VNum(1)>>), VObj(<<>>, <<>>)>>) }

StrKeyPairs == {p \in StrKeys \X StrKeys : p[1] # p[2]}

StrValues ==
    StrAtoms
    \cup {VArr(<<>>), VObj(<<>>, <<>>)}
    \cup {VArr(<<x>>) : x \in StrAtoms}
    \cup {VArr(<<x, y>>) : x \in StrAtoms, y \in StrAtoms}
    \cup {VObj(<<k>>, <<x>>) : k \in StrKeys, x \in StrAtoms}
    \cup {VObj(<<p[1], p[2]>>, <<x, y>>) : p \in StrKeyPairs, x \in StrAtoms,
                                            y \in {VNum(1), VStr(Bob)}}
    \cup StrNested
    \cup {VStr(s) : s \in SpecialStrings}
    \cup {VObj(<< <<"a">> >>, <<VStr(s)>>) : s \in SpecialStrings}
    \cup {VFun(src) : src \in FunctionSources}
    \cup {VObj(<< <<"f">> >>, <<VFun(src)>>) : src \in FunctionSources}

StrInit ==
    /\ transformCache = EmptyCache
    /\ StreamIdle
    /\ ParIdle
    /\ CallerIdle
    /\ IncrIdle
    /\ CliIdle
    /\ strValue \in StrValues
    /\ strOptions \in [minify : BOOLEAN, preserveFunctions : BOOLEAN]
    /\ strFn = ""
    /\ strPc = "start"
    /\ strText = <<>>
    /\ strParsed = NoOutcome

\* stringify(strValue, strOptions)
DoStringify ==
    /\ strPc = "start"
    /\ \E r \in {Stringify(strValue, strOptions)} :
          /\ strPc' = IF r.ok THEN "stringified" ELSE "threw"
          /\ strText' = r.text
    /\ strFn' = "stringify"
    /\ UNCHANGED <<strValue, strOptions, strParsed>>
    /\ UNCHANGED <<transformCache, streamVars, parVars, callerVars, incrVars, cliVars>>

\* stringifyOptimized(strValue, strOptions)
DoStringifyOptimized ==
    /\ strPc = "start"
    /\ strText' = StringifyOptimized(strValue, strOptions)
    /\ strPc' = "stringified"
    /\ strFn' = "stringifyOptimized"
    /\ UNCHANGED <<strValue, strOptions, strParsed>>
    /\ UNCHANGED <<transformCache, streamVars, parVars, callerVars, incrVars, cliVars>>

\* parse(strText), for a value without functions
DoParse ==
    /\ strPc = "stringified"
    /\ NoFunction(strValue)
    /\ \E r \in {Parse(transformCache, strText, NoSchema)} :
          /\ strParsed' = [ok |-> r.ok, val |-> r.val]
          /\ transformCache' = r.cache
    /\ strPc' = "parsed"
    /\ UNCHANGED <<strValue, strOptions, strFn, strText>>
    /\ UNCHANGED <<streamVars, parVars, callerVars, incrVars, cliVars>>

StrNext == DoStringify \/ DoStringifyOptimized \/ DoParse

SpecStr == StrInit /\ [][StrNext]_vars

\* C8: for a value tree of null, booleans, numbers, strings, arrays and
\* objects, parse(stringify(v)) with default options succeeds and returns
\* a value structurally equal to v, array and member order included
C8_RoundTrip ==
    (strFn = "stringify" /\ strPc = "parsed" /\ strOptions = NoOptions /\ NoFunction(strValue))
        => (strParsed.ok /\ strParsed.val = strValue)

\* [A-Za-z_$][A-Za-z0-9_$]*
IsIdentifier(k) == Len(k) > 0 /\ k[1] \in IdStart /\ \A i \in 2..Len(k) : k[i] \in IdPart

\* an object whose member values are null, booleans, numbers or strings
IsFlatObject(v) ==
    v.t = "obj" /\ v.kids # <<>>
    /\ \A i \in 1..Len(v.kids) : v.kids[i].t \in {"null", "bool", "num", "str"}

\* a key as the serializer is to write it: unquoted exactly when it is an
\* identifier
KeyText(k) == IF IsIdentifier(k) THEN k ELSE JsonQuote(k)

\* the lines of the non-minified text of a flat object: {, one line
\* "  key: value" per member, }
FlatLines(v) ==
    <<<<"{">>>>
    \o [i \in 1..Len(v.kids) |->
           <<SP, SP>> \o KeyText(v.keys[i]) \o <<":", SP>> \o JsonSer(v.kids[i], 1, 2, FALSE).text]
    \o <<<<"}">>>>

\* the minified text of a flat object: {key:value,key:value}
RECURSIVE FlatMembers(_, _)
FlatMembers(v, i) ==
    IF i > Len(v.kids) THEN <<>>
    ELSE (IF i > 1 THEN <<",">> ELSE <<>>)
         \o KeyText(v.keys[i]) \o <<":">> \o JsonSer(v.kids[i], 1, 0, FALSE).text
         \o FlatMembers(v, i + 1)

\* do the lines of a text read as the wanted lines, a comma at the end of
\* a line aside
SameLines(got, want) ==
    /\ Len(got) = Len(want)
    /\ \A i \in 1..Len(want) : got[i] = want[i] \/ got[i] = want[i] \o <<",">>

\* text.split('\n')
RECURSIVE SplitLines(_, _, _)
SplitLines(s, i, cur) ==
    IF i > Len(s) THEN <<cur>>
    ELSE IF s[i] = NL THEN <<cur>> \o SplitLines(s, i + 1, <<>>)
    ELSE SplitLines(s, i + 1, Append(cur, s[i]))

\* C9: in the default output only keys lose their quotes: a string value,
\* also one that starts with a letter, _ or $, keeps both its quotes, and
\* the keys after it are still written unquoted (name: "Bob", age: 28)
C9_StringValuesKeepQuotes ==
    (strFn = "stringify" /\ strPc \in {"stringified", "parsed"} /\ ~strOptions.minify
     /\ IsFlatObject(strValue)
     /\ \A i \in 1..Len(strValue.keys) : IsIdentifier(strValue.keys[i]))
        => SameLines(SplitLines(strText, 1, <<>>), FlatLines(strValue))

\* C10: in both modes a key is written without quotes exactly when it is
\* an identifier, and quoted otherwise (the member values here are not
\* strings)
C10_KeysUnquotedIffIdentifier ==
    (strFn = "stringify" /\ strPc \in {"stringified", "parsed"} /\ IsFlatObject(strValue)
     /\ \A i \in 1..Len(strValue.kids) : strValue.kids[i].t # "str")
        => IF strOptions.minify
           THEN strText = <<"{">> \o FlatMembers(strValue, 1) \o <<"}">>
           ELSE SameLines(SplitLines(strText, 1, <<>>), FlatLines(strValue))

\* the number of whitespace characters in a text
RECURSIVE WhiteCount(_)
WhiteCount(s) ==
    IF s = <<>> THEN 0 ELSE (IF Head(s) \in WhiteSpace THEN 1 ELSE 0) + WhiteCount(Tail(s))

\* the number of whitespace characters that the contents of the strings
\* and keys of a value bring into its JSON text
RECURSIVE ContentWhite(_)
ContentWhite(v) ==
    IF v.t = "str" THEN WhiteCount(JsonQuote(v.s))
    ELSE IF v.kids = <<>> THEN 0
    ELSE ContentWhite(Head(v.kids))
         + (IF v.t = "obj" THEN WhiteCount(JsonQuote(Head(v.keys))) ELSE 0)
         + ContentWhite([v EXCEPT !.kids = Tail(v.kids),
                                  !.keys = IF v.t = "obj" THEN Tail(v.keys) ELSE <<>>])

\* the text {a:1,b:{c:2}}
MinifiedABC == <<"{", "a", ":", "1", ",", "b", ":", "{", "c", ":", "2", "}", "}">>

\* C11: stringify(v, {minify: true}) emits no whitespace and no indentation
\* outside string contents (every whitespace character of the output is one
\* of a string or key of v), and for {a:1,b:{c:2}} the output is exactly
\* {a:1,b:{c:2}}
C11_MinifyNoWhitespace ==
    (strFn = "stringify" /\ strPc \in {"stringified", "parsed"} /\ strOptions.minify)
        => /\ WhiteCount(strText) = ContentWhite(strValue)
           /\ strValue = NestedABC => strText = MinifiedABC

\* {a:1,b:{c:2}} has been stringified with minify
C11_Witness ==
    /\ strFn = "stringify"
    /\ strPc = "stringified"
    /\ strOptions.minify
    /\ strValue = NestedABC
    /\ strText = MinifiedABC

\* C12: when parse rejects a syntactically invalid text, the TSONError
\* carries the 1-based line, the 1-based column and the absolute offset of
\* the offending token; for { a: } that is the } at line 1, column 6,
\* offset 5
C12_ErrorCarriesPosition ==
    (lastParse.called /\ ~lastParse.ok /\ lastParse.err.cause = "syntax")
        => /\ lastParse.err.line >= 1
           /\ lastParse.err.column >= 1
           /\ lastParse.err.position >= 0
           /\ lastParse.text = MissingValueText
                 => /\ lastParse.err.line = 1
                    /\ lastParse.err.column = 6
                    /\ lastParse.err.position = 5

\* C13: a brace inside a string literal does not affect the detection of
\* document boundaries: for the well-formed stream {a:"}"}{b:2}, however
\* it is cut into chunks, both objects are emitted, in order, and no error
\* is emitted at the end of the stream
C13_BraceInStringIgnored ==
    (streamText = TextBraceInString /\ streamPhase = "ended")
        => /\ emitted = <<VObj(<< <<"a">> >>, <<VStr(<<"}">>)>>),
                          VObj(<< <<"b">> >>, <<VNum(2)>>)>>
           /\ streamErrors = <<>>

\* C14: a failed speculative parse during a chunk step never emits an
\* error; an error is emitted only at flush, and only when the remaining
\* buffer is non-blank and fails to parse; when the remaining buffer is
\* non-blank and parses, flush emits it as the final value
C14_ErrorsOnlyAtFlush ==
    /\ streamPhase = "open" => streamErrors = <<>>
    /\ (streamPhase = "ended" /\ IsBlank(buffer)) => streamErrors = <<>>
    /\ (streamPhase = "ended" /\ ~IsBlank(buffer))
          => IF Parse(transformCache, buffer, NoSchema).ok
             THEN /\ streamErrors = <<>>
                  /\ emitted # <<>>
                  /\ emitted[Len(emitted)] = Parse(transformCache, buffer, NoSchema).val
             ELSE Len(streamErrors) = 1

\* the text {a:"}"} came in two chunks, the speculative parse of {a:"}
\* failed during a chunk step, and flush emitted the object
C14_Witness ==
    /\ streamText = TextOneBrace
    /\ Len(chunks) = 2
    /\ streamPhase = "ended"
    /\ buffer = TextOneBrace
    /\ emitted = <<VObj(<< <<"a">> >>, <<VStr(<<"}">>)>>)>>
    /\ streamErrors = <<>>

(***************************************************************************)
(* A caller that parses texts of a fixed set, in any order and any number  *)
(* of times, with or without a schema.                                     *)
(***************************************************************************)
\* 1,2: a comma sequence
TextComma == <<"1", ",", "2">>

\* 3-1: arithmetic
TextArith == <<"3", "-", "1">>

\* [5] [0]: a value followed by more text
TextTrailing == <<"[", "5", "]", SP, "[", "0", "]">>

\* NaN: a reference to a global variable
TextGlobal == <<"N", "a", "N">>

\* texts that are not one Value of the grammar followed by the end of input
NotOneValue == {TextComma, TextArith, TextTrailing, TextGlobal, TextAB}

\* {a:1/*c*/}: a block comment before the closing brace
TextBlockComment == <<"{", "a", ":", "1", "/", "*", "c", "*", "/", "}">>

\* {a:1}//c: a line comment after the value
TextLineComment == <<"{", "a", ":", "1", "}", "/", "/", "c">>

\* {a:"/*",b:1/**/}: a block comment after a string that holds /*
TextCommentAfterString ==
    <<"{", "a", ":", QUOTE, "/", "*", QUOTE, ",", "b", ":", "1", "/", "*", "*", "/", "}">>

CommentedTexts == {TextBlockComment, TextLineComment, TextCommentAfterString}

ParseTexts ==
    NotOneValue \cup CommentedTexts
    \cup {EmptyObjectText, MissingValueText, <<"[", "1", ",", "2", "]">>}

ParseNext == \E text \in ParseTexts, schema \in {NoSchema} \cup Schemas : ParseFixed(text, schema)

SpecParse == CallerInit /\ [][ParseNext]_vars

\* C15: parse accepts a text only when it is exactly one Value of the
\* grammar followed by the end of input: a text with more text after the
\* root value, arithmetic, a comma sequence or a variable reference fails
\* and yields no value
C15_OnlyOneValueAccepted ==
    (lastParse.called /\ lastParse.text \in NotOneValue) => ~lastParse.ok

\* the index just after the */ that closes a block comment whose body
\* starts at j (the end of the text when it is never closed)
RECURSIVE AfterBlock(_, _)
AfterBlock(s, j) ==
    IF j > Len(s) THEN j
    ELSE IF MatchAt(s, j, <<"*", "/">>) THEN j + 2
    ELSE AfterBlock(s, j + 1)

\* the index of the line break that ends a line comment (the end of the
\* text when there is none)
RECURSIVE AtLineEnd(_, _)
AtLineEnd(s, j) == IF j > Len(s) \/ s[j] = NL THEN j ELSE AtLineEnd(s, j + 1)

\* a text with the comments that lie outside its string literals removed;
\* q is the quote of the string literal the scan is in, or ""
RECURSIVE Uncommented(_, _, _, _)
Uncommented(s, i, q, acc) ==
    IF i > Len(s) THEN acc
    ELSE IF q # ""
    THEN (IF s[i] = BSL /\ i < Len(s)
          THEN Uncommented(s, i + 2, q, acc \o <<s[i], s[i + 1]>>)
          ELSE Uncommented(s, i + 1, IF s[i] = q THEN "" ELSE q, Append(acc, s[i])))
    ELSE IF s[i] \in {QUOTE, "'"} THEN Uncommented(s, i + 1, s[i], Append(acc, s[i]))
    ELSE IF MatchAt(s, i, <<"/", "*">>) THEN Uncommented(s, AfterBlock(s, i + 2), q, acc)
    ELSE IF MatchAt(s, i, <<"/", "/">>) THEN Uncommented(s, AtLineEnd(s, i + 2), q, acc)
    ELSE Uncommented(s, i + 1, q, Append(acc, s[i]))

\* C16: removing the block and line comments that lie outside string
\* literals does not change the result of parse: the commented text and
\* the text without them both succeed with equal values or both fail
C16_CommentsTransparent ==
    (lastParse.called /\ lastParse.schema = NoSchema)
        => /\ lastParse.ok = Parse(EmptyCache, Uncommented(lastParse.text, 1, "", <<>>), NoSchema).ok
           /\ lastParse.ok
                 => lastParse.val
                    = Parse(EmptyCache, Uncommented(lastParse.text, 1, "", <<>>), NoSchema).val

(***************************************************************************)
(* performance.ts: parseIncremental                                        *)
(***************************************************************************)
\* str.charCodeAt(i), for the characters of the contents the callers use
CharCode(c) ==
    CASE c \in Digits -> 48 + DigitVal(c)
      [] c = "{" -> 123
      [] c = "}" -> 125
      [] c = "[" -> 91
      [] c = "]" -> 93
      [] c = ":" -> 58
      [] c = "," -> 44
      [] c = "a" -> 97
      [] c = "b" -> 98
      [] c = "A" -> 65
      [] c = "B" -> 66
      [] c = QUOTE -> 34
      [] OTHER -> 32

\* hash = ((hash << 5) - hash) + char; hash = hash & hash: 31 * hash + char
\* in 32 bits, the hash kept as its two 16-bit halves [hi, lo]
HashStep(hash, code) ==
    [hi |-> (hash.hi * 31 + (hash.lo * 31 + code) \div 65536) % 65536,
     lo |-> (hash.lo * 31 + code) % 65536]

\* simpleHash(str); the 32-bit number stands for its base-36 text, which
\* is different for different numbers
RECURSIVE SimpleHash(_)
SimpleHash(str) ==
    IF str = <<>> THEN [hi |-> 0, lo |-> 0]
    ELSE HashStep(SimpleHash(SubSeq(str, 1, Len(str) - 1)), CharCode(str[Len(str)]))

\* parseStateCache.size > 1000
IncrLimit == 1000

\* Date.now() - 300000
TtlMs == 300000

\* // Clean old entries
CleanOldEntries(cache, time) ==
    IF Cardinality(DOMAIN cache) > IncrLimit
    THEN [k \in {x \in DOMAIN cache : ~(cache[x].lastModified < time - TtlMs)} |-> cache[k]]
    ELSE cache

\* parseStateCache.set(key, {content, lastHash, lastResult, lastModified})
StateSet(cache, key, state) ==
    [k \in (DOMAIN cache) \cup {key} |-> IF k = key THEN state ELSE cache[k]]

\* parseIncremental(content, key, {schema}) at a time: [ok, val, wrote,
\* states, cache]; a parse that throws leaves parseStateCache as it was
ParseIncremental(states, cache, content, key, schema, time) ==
    IF key \in DOMAIN states /\ states[key].lastHash = SimpleHash(content)
    THEN [ok |-> TRUE, val |-> states[key].lastResult, wrote |-> FALSE, states |-> states,
          cache |-> cache]
    ELSE Bind(Parse(cache, content, schema), LAMBDA r :
             IF ~r.ok
             THEN [ok |-> FALSE, val |-> VUndef, wrote |-> FALSE, states |-> states,
                   cache |-> r.cache]
             ELSE [ok |-> TRUE, val |-> r.val, wrote |-> TRUE,
                   states |-> CleanOldEntries(
                       StateSet(states, key,
                                [content |-> content, lastHash |-> SimpleHash(content),
                                 lastResult |-> r.val, lastModified |-> time]),
                       time),
                   cache |-> r.cache])

(***************************************************************************)
(* A caller of parseIncremental; the keys are numbered, k standing for the *)
(* k-th key the process has used. The process is either new or has filled *)
(* parseStateCache with IncrLimit entries at time 0.                       *)
(***************************************************************************)
\* the clock is advanced at most MaxTicks times, each time by more than
\* the TTL
MaxTicks == 2

IncrContents == {<<"1">>, <<"2">>, UnfinishedText}

IncrKeys == {1, 2, IncrLimit + 1}

FullStateCache ==
    [k \in 1..IncrLimit |-> [content |-> <<"1">>, lastHash |-> SimpleHash(<<"1">>),
                            lastResult |-> VNum(1), lastModified |-> 0]]

IncrInit ==
    /\ StreamIdle
    /\ ParIdle
    /\ CallerIdle
    /\ StrIdle
    /\ CliIdle
    /\ \/ parseStateCache = EmptyStateCache /\ transformCache = EmptyCache
       \/ parseStateCache = FullStateCache
          /\ transformCache = CacheSet(EmptyCache, <<"1">>, VNum(1))
    /\ now = 0
    /\ lastIncr = NoIncr

\* parseIncremental(content, key, {schema}), returning or throwing
CallParseIncremental(content, key, schema) ==
    /\ \E r \in {ParseIncremental(parseStateCache, transformCache, content, key, schema,
                                  now)} :
          /\ parseStateCache' = r.states
          /\ transformCache' = r.cache
          /\ lastIncr' = [called |-> TRUE, content |-> content, key |-> key,
                          schema |-> schema, wrote |-> r.wrote, ok |-> r.ok, val |-> r.val]
    /\ UNCHANGED now
    /\ UNCHANGED <<streamVars, parVars, callerVars, strVars, cliVars>>

\* more than the TTL passes with no call
Tick ==
    /\ now < MaxTicks * (TtlMs + 1)
    /\ now' = now + TtlMs + 1
    /\ lastIncr' = NoIncr
    /\ UNCHANGED <<transformCache, parseStateCache>>
    /\ UNCHANGED <<streamVars, parVars, callerVars, strVars, cliVars>>

IncrNext ==
    \/ \E content \in IncrContents, key \in IncrKeys :
          CallParseIncremental(content, key, NoSchema)
    \/ Tick

SpecIncr == IncrInit /\ [][IncrNext]_vars

\* C17: every parseIncremental call that parses and stores purges the
\* entries older than the TTL of 5 minutes: after a write no entry older
\* than the TTL remains in parseStateCache
C17_WritePurgesOldEntries ==
    (lastIncr.called /\ lastIncr.wrote)
        => \A k \in DOMAIN parseStateCache : now - parseStateCache[k].lastModified <= TtlMs

\* C18: with preserveFunctions: true, stringify emits a function value as
\* exactly its source text, unquoted and with no escaping added to the
\* quotes in it: the function alone gives its source, the object {f: fn}
\* minified gives {f:source}
C18_FunctionSourceVerbatim ==
    (strFn = "stringify" /\ strPc = "stringified" /\ strOptions.preserveFunctions)
        => /\ strValue.t = "fun" => strText = strValue.s
           /\ (strValue.t = "obj" /\ ~NoFunction(strValue) /\ strOptions.minify)
                 => strText = <<"{", "f", ":">> \o strValue.kids[1].s \o <<"}">>

\* is every quote of the text escaped, and no control character in it
RECURSIVE Escaped(_, _)
Escaped(s, i) ==
    IF i > Len(s) THEN TRUE
    ELSE IF s[i] = BSL THEN i < Len(s) /\ Escaped(s, i + 2)
    ELSE s[i] \notin {QUOTE, NL, "\t", "\r"} /\ Escaped(s, i + 1)

\* a text without the quotes around it, where it has them
Unquoted(s) ==
    SubSeq(s, IF s # <<>> /\ s[1] = QUOTE THEN 2 ELSE 1,
           IF Len(s) > 1 /\ s[Len(s)] = QUOTE THEN Len(s) - 1 ELSE Len(s))

\* C19: in the output of stringify and of stringifyOptimized, minified or
\* not, every quote and every control character inside a string value is
\* escaped, so that the string value does not end its own literal early
C19_StringContentsEscaped ==
    (strPc = "stringified" /\ strValue.t = "str") => Escaped(Unquoted(strText), 1)

(***************************************************************************)
(* validate and validateDetailed, and a caller of the two                  *)
(***************************************************************************)
\* error instanceof TSONError ? error.message : 'Unknown error'
MessageOf(err) == IF err.name = "TSONError" THEN ErrorMessage(err) ELSE <<"Unknown error">>

\* validate(tsn, schema): [threw, valid, hasError, error, cache]
Validate(cache, tsn, schema) ==
    Bind(Parse(cache, tsn, schema), LAMBDA r :
        IF r.ok
        THEN [threw |-> FALSE, valid |-> TRUE, hasError |-> FALSE, error |-> <<>>,
              cache |-> r.cache]
        ELSE [threw |-> FALSE, valid |-> FALSE, hasError |-> TRUE, error |-> MessageOf(r.err),
              cache |-> r.cache])

\* a validateDetailed that reports an invalid text with an empty list
ValidateDetailed_NoErrors(cache, tsn, schema) ==
    [threw |-> FALSE, valid |-> Parse(cache, tsn, schema).ok, errors |-> <<>>,
     cache |-> Parse(cache, tsn, schema).cache]

\* validateDetailed(tsn, schema): [threw, valid, errors, cache]
ValidateDetailed(cache, tsn, schema) ==
    Bind(Parse(cache, tsn, schema), LAMBDA r :
        IF r.ok THEN [threw |-> FALSE, valid |-> TRUE, errors |-> <<>>, cache |-> r.cache]
        ELSE IF r.err.name = "TSONError"
        THEN [threw |-> FALSE, valid |-> FALSE,
              errors |-> <<[message |-> ErrorMessage(r.err), line |-> r.err.line,
                            column |-> r.err.column, position |-> r.err.position]>>,
              cache |-> r.cache]
        ELSE [threw |-> FALSE, valid |-> FALSE,
              errors |-> <<[message |-> <<"Unknown error">>, line |-> Undefined,
                            column |-> Undefined, position |-> Undefined]>>,
              cache |-> r.cache])

ValidateTexts == {EmptyObjectText, MissingValueText, TextBlockComment, <<"7">>}

CallValidate(text, schema) ==
    /\ \E r \in {Validate(transformCache, text, schema)} :
          /\ transformCache' = r.cache
          /\ lastValidate' = [called |-> TRUE, text |-> text, schema |-> schema,
                              threw |-> r.threw, valid |-> r.valid, hasError |-> r.hasError,
                              error |-> r.error, errors |-> <<>>]
    /\ UNCHANGED <<nextFresh, lastParse, lastDetailed>>
    /\ UNCHANGED <<streamVars, parVars, strVars, incrVars, cliVars>>

CallValidateDetailed(text, schema) ==
    /\ \E r \in {ValidateDetailed(transformCache, text, schema)} :
          /\ transformCache' = r.cache
          /\ lastDetailed' = [called |-> TRUE, text |-> text, schema |-> schema,
                              threw |-> r.threw, valid |-> r.valid, hasError |-> FALSE,
                              error |-> <<>>, errors |-> r.errors]
    /\ UNCHANGED <<nextFresh, lastParse, lastValidate>>
    /\ UNCHANGED <<streamVars, parVars, strVars, incrVars, cliVars>>

ValidateNext ==
    \/ \E text \in ValidateTexts, schema \in {NoSchema} \cup Schemas : CallValidate(text, schema)
    \/ \E text \in ValidateTexts, schema \in {NoSchema} \cup Schemas :
          CallValidateDetailed(text, schema)

SpecValidate == CallerInit /\ [][ValidateNext]_vars

\* C20: validate and validateDetailed never throw; valid is true exactly
\* when parse(text, {schema}) returns without throwing, so on the same text
\* and schema their valid fields are equal; an invalid result of validate
\* carries an error message and one of validateDetailed a non-empty errors
\* list, and a valid result has an empty errors list
C20_ValidateAgrees ==
    /\ lastValidate.called
          => /\ ~lastValidate.threw
             /\ lastValidate.valid
                   = Parse(transformCache, lastValidate.text, lastValidate.schema).ok
             /\ ~lastValidate.valid => (lastValidate.hasError /\ lastValidate.error # <<>>)
    /\ lastDetailed.called
          => /\ ~lastDetailed.threw
             /\ lastDetailed.valid
                   = Parse(transformCache, lastDetailed.text, lastDetailed.schema).ok
             /\ lastDetailed.valid <=> lastDetailed.errors = <<>>
    /\ (lastValidate.called /\ lastDetailed.called /\ lastValidate.text = lastDetailed.text
        /\ lastValidate.schema = lastDetailed.schema)
          => lastValidate.valid = lastDetailed.valid

\* { a: } was found invalid by both functions, with a message and with a
\* one-element errors list
C20_Witness ==
    /\ lastValidate.called /\ lastValidate.text = MissingValueText
    /\ ~lastValidate.valid /\ lastValidate.hasError
    /\ lastDetailed.called /\ lastDetailed.text = MissingValueText
    /\ ~lastDetailed.valid /\ Len(lastDetailed.errors) = 1

(***************************************************************************)
(* The entries of the parse result cache                                   *)
(***************************************************************************)
\* C21: a parse call that throws, for a syntax error or for a failed
\* schema validation, leaves transformCache with exactly the entries it
\* had before the call
C21_FailedParseKeepsCache ==
    [][(lastParse'.called /\ ~lastParse'.ok) => transformCache' = transformCache]_vars

\* C22: a parse that raises the number of entries above 1000 removes every
\* entry, the one it inserted included, so that repeating it at once is a
\* miss; no other parse call removes an entry
C22_ClearsEverythingPastLimit ==
    [][/\ (CacheSize(transformCache) = CacheLimit /\ lastParse'.ok /\ ~lastParse'.hit)
             => /\ transformCache' = EmptyCache
                /\ ~Parse(transformCache', lastParse'.text, lastParse'.schema).hit
       /\ (\E k \in DOMAIN transformCache : k \notin DOMAIN transformCache')
             => /\ CacheSize(transformCache) = CacheLimit
                /\ ~lastParse'.hit
                /\ transformCache' = EmptyCache]_vars

\* the parse of the 1001st different text has just returned its value and
\* the cache is empty
C22_Witness ==
    /\ nextFresh = CacheLimit + 1
    /\ lastParse.called /\ lastParse.ok /\ ~lastParse.hit
    /\ lastParse.text = NatToText(CacheLimit)
    /\ transformCache = EmptyCache

(***************************************************************************)
(* The parse stream and the cuts of its text                               *)
(***************************************************************************)
\* what a stream emits when the whole text is written as one chunk and the
\* stream is ended: [emitted, failed]
OneChunk(text) ==
    Bind(Transform(<<>>, EmptyCache, BufferToString(Utf8Encode(text)), NoSchema), LAMBDA r :
        IF IsBlank(r.buffer)
        THEN [emitted |-> r.out, failed |-> FALSE]
        ELSE Bind(Parse(r.cache, r.buffer, NoSchema), LAMBDA f :
                 [emitted |-> IF f.ok THEN Append(r.out, f.val) ELSE r.out,
                  failed |-> ~f.ok]))

\* C23: however the text is cut into chunks, the stream has emitted, when
\* it ends, the values it emits for the text written as one chunk, and an
\* error exactly when that stream emits one
C23_CutsDoNotMatter ==
    streamPhase = "ended"
        => /\ emitted = OneChunk(streamText).emitted
           /\ (streamErrors # <<>>) = OneChunk(streamText).failed

\* C24: after every chunk step the text of the chunks written so far is,
\* in order, the texts consumed by the values emitted followed by the
\* retained buffer
C24_NothingLostNothingTwice ==
    (streamPhase = "open" /\ chunks # <<>>)
        => /\ BufferToString(Concat(chunks)) = Concat(spans) \o buffer
           /\ Len(spans) = Len(emitted)

(***************************************************************************)
(* A caller that parses texts and changes the objects parse returns.  The  *)
(* value parse returns is the object transformCache holds for the          *)
(* processed text (set on a miss, read on a hit), so a change to it is a   *)
(* change to that entry.                                                   *)
(***************************************************************************)
\* {a:1}
TextA1 == <<"{", "a", ":", "1", "}">>

AliasTexts == {EmptyObjectText, TextA1, TextBlockComment, <<"[", "1", "]">>, <<"7">>}

\* result.a = 2 on the object the last parse call returned
MutateResult ==
    /\ lastParse.called /\ lastParse.ok
    /\ lastParse.val.t = "obj"
    /\ \E changed \in {SetMember(lastParse.val, <<"a">>, VNum(2))},
          processed \in {PreprocessTSON(lastParse.text)} :
          /\ lastParse' = [lastParse EXCEPT !.val = changed, !.mutated = TRUE]
          /\ transformCache' = IF processed \in DOMAIN transformCache
                               THEN [transformCache EXCEPT ![processed] = changed]
                               ELSE transformCache
    /\ UNCHANGED <<nextFresh, lastValidate, lastDetailed>>
    /\ UNCHANGED <<streamVars, parVars, strVars, incrVars, cliVars>>

AliasNext ==
    \/ \E text \in AliasTexts, schema \in {NoSchema, "object"} : ParseFixed(text, schema)
    \/ MutateResult

SpecAlias == CallerInit /\ [][AliasNext]_vars

\* C25: whatever the caller did to the values of earlier parse calls, the
\* value a parse call returns is structurally equal to that of a fresh
\* parse of the text
C25_ResultsIndependent ==
    (lastParse.called /\ lastParse.ok /\ ~lastParse.mutated)
        => lastParse.val = Parse(EmptyCache, lastParse.text, lastParse.schema).val

\* C26: a parse call has the outcome of the same call on an empty cache:
\* the same value when it returns and, when it throws, an error with the
\* same name, message and position fields
C26_HitAndMissAgree ==
    lastParse.called
        => /\ lastParse.ok = Parse(EmptyCache, lastParse.text, lastParse.schema).ok
           /\ lastParse.val = Parse(EmptyCache, lastParse.text, lastParse.schema).val
           /\ lastParse.err = Parse(EmptyCache, lastParse.text, lastParse.schema).err

(***************************************************************************)
(* A caller of parseIncremental that uses two keys, with and without the   *)
(* schema {type: "object"}, on contents of which two have the same hash.   *)
(***************************************************************************)
\* "Aa" and "BB": two string literals; 65 * 31 + 97 = 66 * 31 + 66
TextAa == <<QUOTE, "A", "a", QUOTE>>

TextBB == <<QUOTE, "B", "B", QUOTE>>

SameContents == {TextAa, TextBB, EmptyObjectText, <<"1">>, UnfinishedText}

SameNext ==
    \E content \in SameContents, key \in {1, 2}, schema \in {NoSchema, "object"} :
        CallParseIncremental(content, key, schema)

SpecIncrSame == CallerInit /\ [][SameNext]_vars

\* C27: parseIncremental(content, key, options) returns a value equal to
\* that of parse(content, options) when parse returns, and throws when
\* parse throws, whatever the earlier calls were
C27_SameAsParse ==
    lastIncr.called
        => /\ lastIncr.ok = Parse(EmptyCache, lastIncr.content, lastIncr.schema).ok
           /\ lastIncr.ok
                 => lastIncr.val = Parse(EmptyCache, lastIncr.content, lastIncr.schema).val

(***************************************************************************)
(* parseParallel with its scheduling: the loop goes on while it can, the   *)
(* await is reached when the loop has ended, and every started worker      *)
(* posts a message, raises an error or exits.                              *)
(***************************************************************************)
\* the worker of job j posts its message, raises an error or exits
WorkerEnds(j) ==
    /\ j \in 1..Len(jobs)
    /\ \/ WorkerMessage(j)
       \/ WorkerError(j)
       \/ \E code \in {0, 1} : WorkerExit(j, code)

SpecParLive ==
    /\ SpecPar
    /\ WF_vars(ParLoopTest)
    /\ WF_vars(ParStartBatch)
    /\ WF_vars(ParAwait)
    /\ \A j \in 1..MaxFiles : WF_vars(WorkerEnds(j))

\* C28: whatever the jobs and maxWorkers, zero and negative values
\* included, the loop that starts the jobs ends and the promise of
\* parseParallel settles
C28_EventuallySettles == <>(callState \in {"resolved", "rejected"})

(***************************************************************************)
(* The command line program: one run on a file of the disk                 *)
(***************************************************************************)
DotJson == <<".", "j", "s", "o", "n">>

DotTsn == <<".", "t", "s", "n">>

\* file.replace(/\.json$/, '.tsn')
OutFile(file) ==
    IF Len(file) >= Len(DotJson) /\ SubSeq(file, Len(file) - Len(DotJson) + 1, Len(file)) = DotJson
    THEN SubSeq(file, 1, Len(file) - Len(DotJson)) \o DotTsn
    ELSE file

\* JSON.parse(content): [ok, val]. The contents of the model are JSON
\* texts and one unfinished text, on which JSON.parse and the evaluation
\* of the text as an expression agree
JsonParse(content) == EvalText(content)

\* writeFileSync(path, text)
WriteFile(files0, path, text) ==
    [f \in (DOMAIN files0) \cup {path} |-> IF f = path THEN text ELSE files0[f]]

CliNames ==
    { <<"a">> \o DotJson, <<"a", ".", "t", "x", "t">>, <<"j", "s", "o", "n">>,
      <<"a">> \o DotJson \o <<".", "b", "a", "k">>, <<"a">> \o DotTsn }

CliContents ==
    { <<"{", QUOTE, "a", QUOTE, ":", "1", "}">>, <<"[", "1", "]">>, <<"1">>, <<"{">> }

\* the program was started with a command and a file name; the file exists
\* or not
CliInit ==
    /\ transformCache = EmptyCache
    /\ StreamIdle
    /\ ParIdle
    /\ CallerIdle
    /\ StrIdle
    /\ IncrIdle
    /\ argv \in [command : {"", "parse", "validate", "convert", "help"},
                 file : CliNames \cup {<<>>}]
    /\ \/ disk = NoFiles
       \/ \E name \in CliNames, content \in CliContents : disk = WriteFile(NoFiles, name, content)
    /\ written = <<>>
    /\ exitCode = Undefined

\* no command: the usage text and exit code 0; no file: exit code 1; a
\* file that cannot be read: the catch block, exit code 1; a command that
\* is not known: exit code 1
CliNoRun ==
    /\ exitCode = Undefined
    /\ exitCode' = IF argv.command = "" THEN 0
                   ELSE IF argv.file = <<>> \/ argv.file \notin DOMAIN disk THEN 1
                   ELSE IF argv.command \notin {"parse", "validate", "convert"} THEN 1
                   ELSE Undefined
    /\ exitCode' # Undefined
    /\ UNCHANGED <<argv, disk, written>>
    /\ UNCHANGED <<transformCache, streamVars, parVars, callerVars, strVars, incrVars>>

\* a command on a file that was read
CliReads(command) ==
    /\ exitCode = Undefined
    /\ argv.command = command
    /\ argv.file # <<>>
    /\ argv.file \in DOMAIN disk

\* case 'parse': the value is printed, or parse throws
CliParse ==
    /\ CliReads("parse")
    /\ \E r \in {Parse(transformCache, disk[argv.file], NoSchema)} :
          /\ transformCache' = r.cache
          /\ exitCode' = IF r.ok THEN 0 ELSE 1
    /\ UNCHANGED <<argv, disk, written>>
    /\ UNCHANGED <<streamVars, parVars, callerVars, strVars, incrVars>>

\* case 'validate'
CliValidate ==
    /\ CliReads("validate")
    /\ \E r \in {Validate(transformCache, disk[argv.file], NoSchema)} :
          /\ transformCache' = r.cache
          /\ exitCode' = IF r.valid THEN 0 ELSE 1
    /\ UNCHANGED <<argv, disk, written>>
    /\ UNCHANGED <<streamVars, parVars, callerVars, strVars, incrVars>>

\* case 'convert': the notation text of the JSON value is written to
\* outFile
CliConvert ==
    /\ CliReads("convert")
    /\ \E json \in {JsonParse(disk[argv.file])} :
          IF ~json.ok
          THEN /\ exitCode' = 1
               /\ UNCHANGED <<disk, written>>
          ELSE \E tson \in {Stringify(json.val, NoOptions)} :
                  IF ~tson.ok
                  THEN /\ exitCode' = 1
                       /\ UNCHANGED <<disk, written>>
                  ELSE /\ disk' = WriteFile(disk, OutFile(argv.file), tson.text)
                       /\ written' = Append(written, OutFile(argv.file))
                       /\ exitCode' = 0
    /\ UNCHANGED argv
    /\ UNCHANGED <<transformCache, streamVars, parVars, callerVars, strVars, incrVars>>

CliNext ==
    \/ CliNoRun
    \/ CliParse
    \/ CliValidate
    \/ CliConvert

SpecCli == CliInit /\ [][CliNext]_vars

\* C29: the convert command never writes to the file it read: the path it
\* writes the notation text to is not the path of its input
C29_ConvertKeepsInput ==
    (argv.command = "convert" /\ exitCode = 0)
        => /\ written # <<>>
           /\ \A i \in 1..Len(written) : written[i] # argv.file

=============================================================================
